---- MODULE Spec2Model ----
(***************************************************************************)
(* Model of the descriptive-statistics engine of statify:                  *)
(*   StatCalculator  (src/assets/js/calculator.js, the browser calculator) *)
(*   Statistics      (src/utils/statistics.js, the Node-side port)         *)
(*                                                                         *)
(* JavaScript values are modelled as follows.                              *)
(*   number     [n |-> numerator, d |-> denominator]  reduced, d > 0;      *)
(*              d = 0 marks the non-finite values: n = 0 is NaN,           *)
(*              n = 1 is +Infinity, n = -1 is -Infinity.  A principal      *)
(*              square root that is irrational is [sqrt |-> v].            *)
(*              IEEE-754 doubles are idealised as exact reals, except in   *)
(*              calculateClassWidth, where Math.ceil turns a rounding      *)
(*              error into a different result, and in the state machine    *)
(*              DoubleSpec for the mean: there every operation is rounded  *)
(*              as the Number type rounds it.                              *)
(*   string     [str |-> <<"c", "h", "a", "r", "s">>]                      *)
(*   array      [arr |-> <<items>>]                                        *)
(*   object     a TLA+ record                                              *)
(*   null       Null,  undefined  Undefined                                *)
(***************************************************************************)
EXTENDS Integers, Sequences, FiniteSets, TLC

(***************************************************************************)
(* Bounds of the model                                                     *)
(***************************************************************************)
MaxLen == 4
MaxStrLen == 3
MaxDoubleLen == 3
MaxFrameLen == 3
MaxCalls == 2

\* the clock readings of one session of the page: one more than MaxHistory,
\* so that the history overflows
MaxClock == 11

\* the games finished in one session of the Wordle page
MaxGames == 2

\* the milliseconds of one session of the chat, and the queries sent in it
MaxTime == 3

MaxQueries == 2

(***************************************************************************)
(* null / undefined / strings / arrays                                     *)
(***************************************************************************)
Null == [null |-> TRUE]
Undefined == [undefined |-> TRUE]

Str(chars) == [str |-> chars]

Arr(items) == [arr |-> items]

IsString(v) == DOMAIN v = {"str"}

IsArray(v) == DOMAIN v = {"arr"}

EmptyString == Str(<<>>)

\* ToBoolean(v) = false: the falsy values of the language
Falsy(v) ==
    \/ v = Null
    \/ v = Undefined
    \/ v = EmptyString
    \/ v = [n |-> 0, d |-> 1]
    \/ v = [n |-> 0, d |-> 0]

(***************************************************************************)
(* numbers                                                                 *)
(***************************************************************************)
Abs(i) == IF i < 0 THEN -i ELSE i

RECURSIVE Gcd(_, _)
Gcd(a, b) == IF b = 0 THEN a ELSE Gcd(b, a % b)

Num(n, d) ==
    LET g == Gcd(Abs(n), Abs(d))
        s == IF d < 0 THEN -1 ELSE 1
    IN  IF d = 0 THEN [n |-> (IF n > 0 THEN 1 ELSE IF n < 0 THEN -1 ELSE 0), d |-> 0]
        ELSE [n |-> (s * n) \div g, d |-> (s * d) \div g]

FromInt(i) == [n |-> i, d |-> 1]

Zero == FromInt(0)

NaN == [n |-> 0, d |-> 0]
Infinity == [n |-> 1, d |-> 0]
NegInfinity == [n |-> -1, d |-> 0]

IsSurd(v) == DOMAIN v = {"sqrt"}

IsRational(v) == DOMAIN v = {"n", "d"} /\ v.d > 0

isNaN(v) == v = NaN

isFinite(v) == IsSurd(v) \/ (DOMAIN v = {"n", "d"} /\ v.d # 0)

Add(a, b) == Num(a.n * b.d + b.n * a.d, a.d * b.d)

Sub(a, b) == Num(a.n * b.d - b.n * a.d, a.d * b.d)

Mul(a, b) == Num(a.n * b.n, a.d * b.d)

Div(a, b) == Num(a.n * b.d, a.d * b.n)

Lt(a, b) == a.n * b.d < b.n * a.d

Leq(a, b) == a.n * b.d <= b.n * a.d

Math_ceil(a) == FromInt(-((-a.n) \div a.d))

Number_isInteger(v) == IsRational(v) /\ v.d = 1

RECURSIVE Pow10(_)
Pow10(k) == IF k = 0 THEN 1 ELSE 10 * Pow10(k - 1)

(***************************************************************************)
(* characters and strings                                                  *)
(***************************************************************************)
Digits == {"0", "1", "2", "3", "4", "5", "6", "7", "8", "9"}

DigitVal(c) ==
    CASE c = "0" -> 0 [] c = "1" -> 1 [] c = "2" -> 2 [] c = "3" -> 3
      [] c = "4" -> 4 [] c = "5" -> 5 [] c = "6" -> 6 [] c = "7" -> 7
      [] c = "8" -> 8 [] c = "9" -> 9

DigitChar(i) == <<"0", "1", "2", "3", "4", "5", "6", "7", "8", "9">>[i + 1]

\* the characters matched by \s and removed by String.prototype.trim
WhiteSpace == {" ", "\t", "\n", "\r"}

RECURSIVE NatToChars(_)
NatToChars(i) ==
    IF i < 10 THEN <<DigitChar(i)>>
    ELSE NatToChars(i \div 10) \o <<DigitChar(i % 10)>>

\* the decimal digits of r / d, 0 <= r < d, until the remainder is 0
RECURSIVE FracChars(_, _)
FracChars(r, d) ==
    IF r = 0 THEN <<>>
    ELSE <<DigitChar((r * 10) \div d)>> \o FracChars((r * 10) % d, d)

\* Number.prototype.toString() for a finite decimal fraction, and the
\* three non-finite numbers
Number_toString(x) ==
    IF x = NaN THEN Str(<<"N", "a", "N">>)
    ELSE IF x = Infinity THEN Str(<<"I", "n", "f", "i", "n", "i", "t", "y">>)
    ELSE IF x = NegInfinity THEN Str(<<"-", "I", "n", "f", "i", "n", "i", "t", "y">>)
    ELSE LET a == Abs(x.n)
             ip == NatToChars(a \div x.d)
             fp == FracChars(a % x.d, x.d)
         IN  Str((IF x.n < 0 THEN <<"-">> ELSE <<>>) \o ip
                 \o (IF fp = <<>> THEN <<>> ELSE <<".">> \o fp))

\* String.prototype.trim
RECURSIVE TrimLeft(_)
TrimLeft(cs) ==
    IF cs # <<>> /\ Head(cs) \in WhiteSpace THEN TrimLeft(Tail(cs)) ELSE cs

RECURSIVE TrimRight(_)
TrimRight(cs) ==
    IF cs # <<>> /\ cs[Len(cs)] \in WhiteSpace
    THEN TrimRight(SubSeq(cs, 1, Len(cs) - 1)) ELSE cs

trim(s) == Str(TrimRight(TrimLeft(s.str)))

\* length of the run of decimal digits of cs that starts at position p
RECURSIVE DigitRun(_, _)
DigitRun(cs, p) ==
    IF p <= Len(cs) /\ cs[p] \in Digits THEN 1 + DigitRun(cs, p + 1) ELSE 0

\* value of the k decimal digits of cs that start at position p
RECURSIVE DigitsValue(_, _, _)
DigitsValue(cs, p, k) ==
    IF k = 0 THEN 0
    ELSE 10 * DigitsValue(cs, p, k - 1) + DigitVal(cs[p + k - 1])

StartsWith(cs, p, word) ==
    /\ p + Len(word) - 1 <= Len(cs)
    /\ SubSeq(cs, p, p + Len(word) - 1) = word

(***************************************************************************)
(* string -> number conversions                                            *)
(***************************************************************************)
InfinityWord == <<"I", "n", "f", "i", "n", "i", "t", "y">>

\* The longest prefix of cs that is a StrDecimalLiteral:
\*   [+-] ( Infinity | digits [. [digits]] [exp] | . digits [exp] )
\* len = 0 when no prefix is one.
DecimalPrefix(cs) ==
    LET hasSign == cs # <<>> /\ cs[1] \in {"+", "-"}
        sgn == IF hasSign /\ cs[1] = "-" THEN -1 ELSE 1
        p0 == IF hasSign THEN 2 ELSE 1
        ni == DigitRun(cs, p0)
        hasDot == p0 + ni <= Len(cs) /\ cs[p0 + ni] = "."
        nf == IF hasDot THEN DigitRun(cs, p0 + ni + 1) ELSE 0
        pm == p0 + ni + (IF hasDot /\ (ni > 0 \/ nf > 0) THEN 1 + nf ELSE 0)
        hasE == pm <= Len(cs) /\ cs[pm] \in {"e", "E"}
        hasESign == hasE /\ pm + 1 <= Len(cs) /\ cs[pm + 1] \in {"+", "-"}
        eSgn == IF hasESign /\ cs[pm + 1] = "-" THEN -1 ELSE 1
        pe == pm + 1 + (IF hasESign THEN 1 ELSE 0)
        ne == IF hasE THEN DigitRun(cs, pe) ELSE 0
        ex == DigitsValue(cs, pe, ne)
        mant == Num(DigitsValue(cs, p0, ni) * Pow10(nf)
                      + DigitsValue(cs, p0 + ni + 1, nf), Pow10(nf))
        scaled == IF ne = 0 THEN mant
                  ELSE IF eSgn = 1 THEN Mul(mant, FromInt(Pow10(ex)))
                  ELSE Div(mant, FromInt(Pow10(ex)))
    IN  IF StartsWith(cs, p0, InfinityWord)
        THEN [val |-> (IF sgn = 1 THEN Infinity ELSE NegInfinity),
              len |-> p0 + 7]
        ELSE IF ni = 0 /\ nf = 0 THEN [val |-> NaN, len |-> 0]
        ELSE [val |-> Mul(FromInt(sgn), scaled),
              len |-> IF ne > 0 THEN pe + ne - 1 ELSE pm - 1]

\* parseFloat(string): leading white space is skipped, the longest numeric
\* prefix is converted, whatever follows it is ignored
parseFloat(s) == DecimalPrefix(TrimLeft(s.str)).val

\* value of the k digits of radix r of cs that start at position p
RadixDigits(r) ==
    IF r = 2 THEN {"0", "1"}
    ELSE IF r = 8 THEN {"0", "1", "2", "3", "4", "5", "6", "7"}
    ELSE Digits \cup {"a", "b", "c", "d", "e", "f", "A", "B", "C", "D", "E", "F"}

RadixDigitVal(c) ==
    IF c \in Digits THEN DigitVal(c)
    ELSE CASE c \in {"a", "A"} -> 10 [] c \in {"b", "B"} -> 11
           [] c \in {"c", "C"} -> 12 [] c \in {"d", "D"} -> 13
           [] c \in {"e", "E"} -> 14 [] c \in {"f", "F"} -> 15

RECURSIVE RadixValue(_, _, _)
RadixValue(cs, k, r) ==
    IF k = 2 THEN 0
    ELSE r * RadixValue(cs, k - 1, r) + RadixDigitVal(cs[k])

\* Number(string), the StringToNumber conversion: the whole trimmed string
\* must be a numeric literal; the empty string converts to 0
StringToNumber(s) ==
    LET cs == trim(s).str
        r == IF Len(cs) < 2 \/ cs[1] # "0" THEN 0
             ELSE IF cs[2] \in {"x", "X"} THEN 16
             ELSE IF cs[2] \in {"o", "O"} THEN 8
             ELSE IF cs[2] \in {"b", "B"} THEN 2 ELSE 0
        pre == DecimalPrefix(cs)
    IN  IF cs = <<>> THEN Zero
        ELSE IF r # 0
        THEN IF Len(cs) > 2 /\ \A i \in 3..Len(cs) : cs[i] \in RadixDigits(r)
             THEN FromInt(RadixValue(cs, Len(cs), r)) ELSE NaN
        ELSE IF pre.len = Len(cs) THEN pre.val ELSE NaN

(***************************************************************************)
(* number -> string conversions, Math                                      *)
(***************************************************************************)
RECURSIVE PadLeft(_, _)
PadLeft(cs, k) == IF Len(cs) >= k THEN cs ELSE PadLeft(<<"0">> \o cs, k)

\* floor of the square root of a natural number
RECURSIVE ISqrtFrom(_, _)
ISqrtFrom(i, k) == IF (k + 1) * (k + 1) > i THEN k ELSE ISqrtFrom(i, k + 1)

ISqrt(i) == ISqrtFrom(i, 0)

IsSquare(i) == ISqrt(i) * ISqrt(i) = i

\* Math.sqrt: NaN below zero, otherwise the principal (non-negative) root
Math_sqrt(v) ==
    IF v.n < 0 THEN NaN
    ELSE IF IsSquare(v.n) /\ IsSquare(v.d) THEN Num(ISqrt(v.n), ISqrt(v.d))
    ELSE [sqrt |-> v]

\* floor(sqrt(v) * 10^k) by the digit-by-digit method: s is the root so far,
\* r the remainder, f the remainder of the long division of v.n by v.d
RECURSIVE SqrtDigits(_, _, _, _, _)
SqrtDigits(s, r, f, d, k) ==
    IF k = 0 THEN s
    ELSE LET pair == (f * 100) \div d
             rr == r * 100 + pair
             x == CHOOSE y \in 0..9 :
                    /\ (20 * s + y) * y <= rr
                    /\ (y = 9 \/ (20 * s + y + 1) * (y + 1) > rr)
         IN  SqrtDigits(10 * s + x, rr - (20 * s + x) * x, (f * 100) % d, d, k - 1)

FloorSqrtScaled(v, k) ==
    LET ip == v.n \div v.d
        s0 == ISqrt(ip)
    IN  SqrtDigits(s0, ip - s0 * s0, v.n % v.d, v.d, k)

\* the integer nearest to |x| * 10^p, the larger one on a tie
RoundScaled(x, p) ==
    IF IsSurd(x) THEN (FloorSqrtScaled(x.sqrt, p + 1) + 5) \div 10
    ELSE (2 * Abs(x.n) * Pow10(p) + x.d) \div (2 * x.d)

\* Number.prototype.toFixed(p); a non-finite number gives its toString text
toFixed(x, p) ==
    IF ~isFinite(x) THEN Number_toString(x)
    ELSE LET ds == PadLeft(NatToChars(RoundScaled(x, p)), p + 1)
             neg == IsRational(x) /\ x.n < 0
         IN  Str((IF neg THEN <<"-">> ELSE <<>>)
                 \o SubSeq(ds, 1, Len(ds) - p)
                 \o (IF p = 0 THEN <<>>
                     ELSE <<".">> \o SubSeq(ds, Len(ds) - p + 1, Len(ds))))

\* ToNumber for the operands of an arithmetic operator: null converts to 0
ToNumber(v) == IF v = Null THEN Zero ELSE IF v = Undefined THEN NaN ELSE v

\* Math.log10(n) * 10^5 rounded, for the sample sizes of the model
Log10e5(n) ==
    <<0, 30103, 47712, 60206, 69897, 77815, 84510, 90309, 95424, 100000,
      104139, 107918>>[n]

RECURSIVE Math_min(_)
Math_min(xs) ==
    IF Len(xs) = 1 THEN xs[1]
    ELSE LET m == Math_min(Tail(xs)) IN IF Lt(m, xs[1]) THEN m ELSE xs[1]

RECURSIVE Math_max(_)
Math_max(xs) ==
    IF Len(xs) = 1 THEN xs[1]
    ELSE LET m == Math_max(Tail(xs)) IN IF Lt(xs[1], m) THEN m ELSE xs[1]

\* data.reduce((acc, val) => acc + val, 0)
RECURSIVE SumOf(_)
SumOf(xs) == IF xs = <<>> THEN Zero ELSE Add(SumOf(SubSeq(xs, 1, Len(xs) - 1)), xs[Len(xs)])

(***************************************************************************)
(* IEEE-754 double arithmetic, for the places where the code turns a       *)
(* rounding error into a different result.  A natural number is a sequence *)
(* of limbs, least significant first, without leading zero limbs; a double *)
(* is [neg, m, e], standing for (-1)^neg * m * 2^e with a significand m of *)
(* exactly 53 bits, or m = <<>> for zero.  Subnormal numbers, overflow and *)
(* the sign of zero are outside the range of the inputs.                   *)
(***************************************************************************)
LimbBase == 2^15

SignificandBits == 52 + 1

RECURSIVE BigNorm(_)
BigNorm(a) ==
    IF a = <<>> \/ a[Len(a)] # 0 THEN a ELSE BigNorm(SubSeq(a, 1, Len(a) - 1))

RECURSIVE BigFromNat(_)
BigFromNat(n) ==
    IF n = 0 THEN <<>> ELSE <<n % LimbBase>> \o BigFromNat(n \div LimbBase)

RECURSIVE BigToNat(_)
BigToNat(a) == IF a = <<>> THEN 0 ELSE a[1] + LimbBase * BigToNat(Tail(a))

\* a * k + c, for 0 <= k <= 2^15
RECURSIVE BigMulSmall(_, _, _)
BigMulSmall(a, k, c) ==
    IF a = <<>> THEN BigFromNat(c)
    ELSE LET t == a[1] * k + c
         IN  <<t % LimbBase>> \o BigMulSmall(Tail(a), k, t \div LimbBase)

\* quotient and remainder of a by k, for 0 < k < 2^16
RECURSIVE BigDivRem(_, _)
BigDivRem(a, k) ==
    IF a = <<>> THEN [q |-> <<>>, r |-> 0]
    ELSE LET hi == BigDivRem(Tail(a), k)
             cur == hi.r * LimbBase + a[1]
         IN  [q |-> <<cur \div k>> \o hi.q, r |-> cur % k]

BigDivSmall(a, k) ==
    LET qr == BigDivRem(a, k) IN [q |-> BigNorm(qr.q), r |-> qr.r]

RECURSIVE BigAddLimbs(_, _, _)
BigAddLimbs(a, b, c) ==
    IF a = <<>> /\ b = <<>> THEN (IF c = 0 THEN <<>> ELSE <<c>>)
    ELSE LET x == IF a = <<>> THEN 0 ELSE a[1]
             y == IF b = <<>> THEN 0 ELSE b[1]
             t == x + y + c
         IN  <<t % LimbBase>>
                 \o BigAddLimbs(IF a = <<>> THEN a ELSE Tail(a),
                                IF b = <<>> THEN b ELSE Tail(b), t \div LimbBase)

BigAdd(a, b) == BigAddLimbs(a, b, 0)

\* a - b - c for a >= b + c
RECURSIVE BigSubLimbs(_, _, _)
BigSubLimbs(a, b, c) ==
    IF a = <<>> THEN <<>>
    ELSE LET y == IF b = <<>> THEN 0 ELSE b[1]
             t == a[1] - y - c
         IN  <<IF t < 0 THEN t + LimbBase ELSE t>>
                 \o BigSubLimbs(Tail(a), IF b = <<>> THEN b ELSE Tail(b),
                                IF t < 0 THEN 1 ELSE 0)

BigSub(a, b) == BigNorm(BigSubLimbs(a, b, 0))

\* -1, 0 or 1 as a is less than, equal to or greater than b
RECURSIVE BigCmp(_, _)
BigCmp(a, b) ==
    IF Len(a) # Len(b) THEN (IF Len(a) < Len(b) THEN -1 ELSE 1)
    ELSE IF a = <<>> THEN 0
    ELSE IF a[Len(a)] # b[Len(b)] THEN (IF a[Len(a)] < b[Len(b)] THEN -1 ELSE 1)
    ELSE BigCmp(SubSeq(a, 1, Len(a) - 1), SubSeq(b, 1, Len(b) - 1))

RECURSIVE NatBits(_)
NatBits(n) == IF n = 0 THEN 0 ELSE 1 + NatBits(n \div 2)

BitLen(a) == IF a = <<>> THEN 0 ELSE 15 * (Len(a) - 1) + NatBits(a[Len(a)])

\* a * 2^k
ShiftLeft(a, k) ==
    IF a = <<>> THEN a
    ELSE [i \in 1..(k \div 15) |-> 0] \o BigMulSmall(a, 2^(k % 15), 0)

\* floor(a / 2^k)
ShiftRight(a, k) ==
    IF k \div 15 >= Len(a) THEN <<>>
    ELSE BigDivSmall(SubSeq(a, (k \div 15) + 1, Len(a)), 2^(k % 15)).q

\* a mod 2^k
LowBits(a, k) ==
    IF k \div 15 >= Len(a) THEN a
    ELSE BigNorm(SubSeq(a, 1, k \div 15) \o <<a[(k \div 15) + 1] % 2^(k % 15)>>)

DoubleZero == [neg |-> FALSE, m |-> <<>>, e |-> 0]

\* the double nearest to (-1)^neg * (big + fraction) * 2^e, ties to even,
\* where sticky tells that a fraction in (0, 1) was cut off big
RoundToDouble(neg, big, sticky, e) ==
    LET len == BitLen(big)
        sh == len - SignificandBits
    IN  IF big = <<>> THEN DoubleZero
        ELSE IF sh <= 0 THEN [neg |-> neg, m |-> ShiftLeft(big, -sh), e |-> e + sh]
        ELSE LET q == ShiftRight(big, sh)
                 c == BigCmp(LowBits(big, sh), ShiftLeft(<<1>>, sh - 1))
                 up == c = 1 \/ (c = 0 /\ (sticky \/ q[1] % 2 = 1))
                 m == IF up THEN BigAdd(q, <<1>>) ELSE q
             IN  IF BitLen(m) > SignificandBits
                 THEN [neg |-> neg, m |-> ShiftRight(m, 1), e |-> e + sh + 1]
                 ELSE [neg |-> neg, m |-> m, e |-> e + sh]

\* the double a numeric literal of value n/d denotes, for d < 2^16
ToDouble(v) ==
    LET qr == BigDivSmall(ShiftLeft(BigFromNat(Abs(v.n)), 75), v.d)
    IN  RoundToDouble(v.n < 0, qr.q, qr.r # 0, -75)

DoubleNeg(a) == IF a.m = <<>> THEN a ELSE [a EXCEPT !.neg = ~a.neg]

\* a + b
DoubleAdd(a, b) ==
    IF a.m = <<>> THEN b
    ELSE IF b.m = <<>> THEN a
    ELSE LET e == IF a.e < b.e THEN a.e ELSE b.e
             x == ShiftLeft(a.m, a.e - e)
             y == ShiftLeft(b.m, b.e - e)
             c == BigCmp(x, y)
         IN  IF a.neg = b.neg THEN RoundToDouble(a.neg, BigAdd(x, y), FALSE, e)
             ELSE IF c = 0 THEN DoubleZero
             ELSE IF c = 1 THEN RoundToDouble(a.neg, BigSub(x, y), FALSE, e)
             ELSE RoundToDouble(b.neg, BigSub(y, x), FALSE, e)

DoubleSub(a, b) == DoubleAdd(a, DoubleNeg(b))

\* a * k for an integer 0 < k <= 2^15
DoubleMulInt(a, k) == RoundToDouble(a.neg, BigMulSmall(a.m, k, 0), FALSE, a.e)

\* a / k for an integer 0 < k < 2^16
DoubleDivInt(a, k) ==
    LET qr == BigDivSmall(ShiftLeft(a.m, 20), k)
    IN  RoundToDouble(a.neg, qr.q, qr.r # 0, a.e - 20)

\* -1, 0 or 1 as a is less than, equal to or greater than b
DoubleCmp(a, b) ==
    LET d == DoubleSub(a, b)
    IN  IF d.m = <<>> THEN 0 ELSE IF d.neg THEN -1 ELSE 1

\* Math.ceil of a double, as an integer
DoubleCeil(a) ==
    IF a.m = <<>> THEN 0
    ELSE IF a.e >= 0
    THEN (IF a.neg THEN -1 ELSE 1) * BigToNat(ShiftLeft(a.m, a.e))
    ELSE LET q == BigToNat(ShiftRight(a.m, -a.e))
             exact == LowBits(a.m, -a.e) = <<>>
         IN  IF a.neg THEN -q ELSE IF exact THEN q ELSE q + 1

(***************************************************************************)
(* Array.prototype.sort with the comparator (a, b) => a - b                *)
(***************************************************************************)
\* UTF-16 code units of the characters of a number's text
CharCode(c) ==
    CASE c = "-" -> 45 [] c = "." -> 46 [] c \in Digits -> 48 + DigitVal(c)
      [] OTHER -> 97

RECURSIVE CompareChars(_, _)
CompareChars(x, y) ==
    IF x = <<>> THEN (IF y = <<>> THEN 0 ELSE -1)
    ELSE IF y = <<>> THEN 1
    ELSE IF CharCode(Head(x)) < CharCode(Head(y)) THEN -1
    ELSE IF CharCode(Head(x)) > CharCode(Head(y)) THEN 1
    ELSE CompareChars(Tail(x), Tail(y))

\* sort() called without a comparator: the elements are compared as strings
compareDefault(a, b) ==
    FromInt(CompareChars(Number_toString(a).str, Number_toString(b).str))

compareNumbers(a, b) == Sub(a, b)

\* x goes before the first element it compares below (the sort is stable)
RECURSIVE InsertSorted(_, _)
InsertSorted(sorted, x) ==
    IF sorted = <<>> THEN <<x>>
    ELSE IF compareNumbers(x, Head(sorted)).n < 0 THEN <<x>> \o sorted
    ELSE <<Head(sorted)>> \o InsertSorted(Tail(sorted), x)

RECURSIVE SortNumeric(_)
SortNumeric(xs) ==
    IF xs = <<>> THEN <<>>
    ELSE InsertSorted(SortNumeric(SubSeq(xs, 1, Len(xs) - 1)), xs[Len(xs)])

\* Array.prototype.slice(from, to) with 0-based bounds
slice(xs, from, to) == SubSeq(xs, from + 1, to)

(***************************************************************************)
(* StatCalculator (src/assets/js/calculator.js)                            *)
(***************************************************************************)
\* !data || data.length === 0
NoData(data) == Falsy(data) \/ data.arr = <<>>

StatCalculator_calculateMean(data) ==
    IF NoData(data) THEN Null
    ELSE Div(SumOf(data.arr), FromInt(Len(data.arr)))

StatCalculator_calculateMedian(data) ==
    IF NoData(data) THEN Null
    ELSE LET sorted == SortNumeric(data.arr)
             mid == Len(sorted) \div 2
         IN  IF Len(sorted) % 2 = 0
             THEN Div(Add(sorted[mid], sorted[mid + 1]), FromInt(2))
             ELSE sorted[mid + 1]

\* The frequency object: keys holds the property names in creation order,
\* cnt their values.
EmptyObject == [keys |-> <<>>, cnt |-> <<>>]

HasKey(obj, k) == \E i \in 1..Len(obj.keys) : obj.keys[i] = k

KeyIndex(obj, k) == CHOOSE i \in 1..Len(obj.keys) : obj.keys[i] = k

\* frequency[val] || 0   (a stored count is never 0)
GetKey(obj, k) == IF HasKey(obj, k) THEN obj.cnt[KeyIndex(obj, k)] ELSE 0

\* frequency[val] = v
SetKey(obj, k, v) ==
    IF HasKey(obj, k)
    THEN [obj EXCEPT !.cnt[KeyIndex(obj, k)] = v]
    ELSE [keys |-> Append(obj.keys, k), cnt |-> Append(obj.cnt, v)]

\* a property name that is an array index: the canonical decimal text of an
\* integer in 0 .. 2^32 - 2
IsArrayIndex(k) ==
    /\ k.str # <<>>
    /\ Len(k.str) <= 9
    /\ \A i \in 1..Len(k.str) : k.str[i] \in Digits
    /\ (Len(k.str) = 1 \/ k.str[1] # "0")

RECURSIVE InsertIndexKey(_, _)
InsertIndexKey(sorted, k) ==
    IF sorted = <<>> THEN <<k>>
    ELSE IF DigitsValue(k.str, 1, Len(k.str))
              < DigitsValue(Head(sorted).str, 1, Len(Head(sorted).str))
         THEN <<k>> \o sorted
         ELSE <<Head(sorted)>> \o InsertIndexKey(Tail(sorted), k)

RECURSIVE SortIndexKeys(_)
SortIndexKeys(ks) ==
    IF ks = <<>> THEN <<>>
    ELSE InsertIndexKey(SortIndexKeys(Tail(ks)), Head(ks))

\* Object.keys(obj) and for-in: array-index names in ascending numeric
\* order first, then the other names in creation order
Object_keys(obj) ==
    SortIndexKeys(SelectSeq(obj.keys, IsArrayIndex))
        \o SelectSeq(obj.keys, LAMBDA k : ~IsArrayIndex(k))

\* data.forEach(val => { frequency[val] = (frequency[val] || 0) + 1;
\*                       if (frequency[val] > maxFreq) maxFreq = ... })
RECURSIVE CountFrequencies(_)
CountFrequencies(xs) ==
    IF xs = <<>> THEN [frequency |-> EmptyObject, maxFreq |-> 0]
    ELSE LET prev == CountFrequencies(SubSeq(xs, 1, Len(xs) - 1))
             key == Number_toString(xs[Len(xs)])
             new == GetKey(prev.frequency, key) + 1
         IN  [frequency |-> SetKey(prev.frequency, key, new),
              maxFreq |-> IF new > prev.maxFreq THEN new ELSE prev.maxFreq]

NoModeSentinel == Arr(<<Str(<<"N", "o", " ", "m", "o", "d", "e">>)>>)

\* Array.prototype.map
MapSeq(xs, F(_)) == [i \in 1..Len(xs) |-> F(xs[i])]

\* ties broken: only the first of several modes is returned
StatCalculator_calculateMode_FirstOnly(data) ==
    IF NoData(data) THEN Null
    ELSE LET c == CountFrequencies(data.arr)
             modes == SelectSeq(Object_keys(c.frequency),
                                LAMBDA key : GetKey(c.frequency, key) = c.maxFreq)
         IN  IF c.maxFreq = 1 THEN NoModeSentinel
             ELSE Arr(MapSeq(SubSeq(modes, 1, 1), parseFloat))

StatCalculator_calculateMode(data) ==
    IF NoData(data) THEN Null
    ELSE LET c == CountFrequencies(data.arr)
             modes == SelectSeq(Object_keys(c.frequency),
                                LAMBDA key : GetKey(c.frequency, key) = c.maxFreq)
         IN  IF c.maxFreq = 1 THEN NoModeSentinel
             ELSE Arr(MapSeq(modes, parseFloat))

\* the guard on the sample variance of fewer than two values left out
StatCalculator_calculateVariance_NoSampleGuard(data, isPopulation) ==
    IF NoData(data) THEN Null
    ELSE LET mean == StatCalculator_calculateMean(data)
             squaredDiffs == MapSeq(data.arr,
                                LAMBDA val : Mul(Sub(val, mean), Sub(val, mean)))
             sumSquaredDiffs == SumOf(squaredDiffs)
             divisor == IF isPopulation THEN Len(data.arr) ELSE Len(data.arr) - 1
         IN  Div(sumSquaredDiffs, FromInt(divisor))

\* the two divisors exchanged
StatCalculator_calculateVariance_SwappedDivisor(data, isPopulation) ==
    IF NoData(data) THEN Null
    ELSE IF ~isPopulation /\ Len(data.arr) < 2 THEN Null
    ELSE LET mean == StatCalculator_calculateMean(data)
             squaredDiffs == MapSeq(data.arr,
                                LAMBDA val : Mul(Sub(val, mean), Sub(val, mean)))
             sumSquaredDiffs == SumOf(squaredDiffs)
             divisor == IF isPopulation THEN Len(data.arr) - 1 ELSE Len(data.arr)
         IN  Div(sumSquaredDiffs, FromInt(divisor))

StatCalculator_calculateVariance(data, isPopulation) ==
    IF NoData(data) THEN Null
    ELSE IF ~isPopulation /\ Len(data.arr) < 2 THEN Null
    ELSE LET mean == StatCalculator_calculateMean(data)
             squaredDiffs == MapSeq(data.arr,
                                LAMBDA val : Mul(Sub(val, mean), Sub(val, mean)))
             sumSquaredDiffs == SumOf(squaredDiffs)
             divisor == IF isPopulation THEN Len(data.arr) ELSE Len(data.arr) - 1
         IN  Div(sumSquaredDiffs, FromInt(divisor))

StatCalculator_calculateStdDev(data, isPopulation) ==
    LET variance == StatCalculator_calculateVariance(data, isPopulation)
    IN  IF variance = Null THEN Null ELSE Math_sqrt(variance)

\* the inclusive method: the middle element of an odd Sample kept in the
\* upper half
StatCalculator_calculateQuartiles_Inclusive(data) ==
    IF NoData(data) THEN Null
    ELSE LET sorted == SortNumeric(data.arr)
             n == Len(sorted)
             q2 == StatCalculator_calculateMedian(Arr(sorted))
             lowerHalf == slice(sorted, 0, n \div 2)
             q1 == StatCalculator_calculateMedian(Arr(lowerHalf))
             upperHalf == slice(sorted, n \div 2, n)
             q3 == StatCalculator_calculateMedian(Arr(upperHalf))
         IN  [q1 |-> q1, q2 |-> q2, q3 |-> q3]

\* q2 taken as the upper middle element, without averaging for an even n
StatCalculator_calculateQuartiles_UpperMiddle(data) ==
    IF NoData(data) THEN Null
    ELSE LET sorted == SortNumeric(data.arr)
             n == Len(sorted)
             q2 == sorted[(n \div 2) + 1]
             lowerHalf == slice(sorted, 0, n \div 2)
             q1 == StatCalculator_calculateMedian(Arr(lowerHalf))
             upperStart == IF n % 2 = 0 THEN n \div 2 ELSE (n \div 2) + 1
             upperHalf == slice(sorted, upperStart, n)
             q3 == StatCalculator_calculateMedian(Arr(upperHalf))
         IN  [q1 |-> q1, q2 |-> q2, q3 |-> q3]

StatCalculator_calculateQuartiles(data) ==
    IF NoData(data) THEN Null
    ELSE LET sorted == SortNumeric(data.arr)
             n == Len(sorted)
             q2 == StatCalculator_calculateMedian(Arr(sorted))
             lowerHalf == slice(sorted, 0, n \div 2)
             q1 == StatCalculator_calculateMedian(Arr(lowerHalf))
             upperStart == IF n % 2 = 0 THEN n \div 2 ELSE (n \div 2) + 1
             upperHalf == slice(sorted, upperStart, n)
             q3 == StatCalculator_calculateMedian(Arr(upperHalf))
         IN  [q1 |-> q1, q2 |-> q2, q3 |-> q3]

\* the subtraction with its operands exchanged
StatCalculator_calculateIQR_Swapped(data) ==
    LET quartiles == StatCalculator_calculateQuartiles(data)
    IN  IF quartiles = Null THEN Null
        ELSE Sub(ToNumber(quartiles.q1), ToNumber(quartiles.q3))

\* quartiles.q3 - quartiles.q1: the operands are converted by ToNumber
StatCalculator_calculateIQR(data) ==
    LET quartiles == StatCalculator_calculateQuartiles(data)
    IN  IF quartiles = Null THEN Null
        ELSE Sub(ToNumber(quartiles.q3), ToNumber(quartiles.q1))

\* the rule without its leading 1
Sturges_NoOffset(n) == Math_ceil(Num(3322 * Log10e5(n), 100000000))

\* Math.ceil(1 + 3.322 * Math.log10(n))
Sturges(n) == Math_ceil(Num(100000000 + 3322 * Log10e5(n), 100000000))

\* the subtraction, the division, the multiplication by 100 and Math.ceil
\* in double arithmetic; the class counts of the model are integers; the
\* result c / 100 is the double that the decimal c/100 denotes
StatCalculator_calculateClassWidth(data, numClasses) ==
    IF NoData(data) THEN Null
    ELSE LET min == Math_min(data.arr)
             max == Math_max(data.arr)
             range == DoubleSub(ToDouble(max), ToDouble(min))
             nc == IF Falsy(numClasses) \/ Lt(numClasses, FromInt(1))
                   THEN Sturges(Len(data.arr)) ELSE numClasses
             rawWidth == DoubleDivInt(range, nc.n)
         IN  Num(DoubleCeil(DoubleMulInt(rawWidth, 100)), 100)

\* the same body; the default value of numClasses is 5
Statistics_calculateClassWidth(data, numClassesArg) ==
    StatCalculator_calculateClassWidth(
        data, IF numClassesArg = Undefined THEN FromInt(5) ELSE numClassesArg)

\* the range taken as min - max
StatCalculator_getBasicStats_NegatedRange(data) ==
    IF NoData(data) THEN Null
    ELSE LET min == Math_min(data.arr)
             max == Math_max(data.arr)
         IN  [count |-> FromInt(Len(data.arr)),
              sum |-> SumOf(data.arr),
              min |-> min,
              max |-> max,
              range |-> Sub(min, max)]

StatCalculator_getBasicStats(data) ==
    IF NoData(data) THEN Null
    ELSE LET min == Math_min(data.arr)
             max == Math_max(data.arr)
         IN  [count |-> FromInt(Len(data.arr)),
              sum |-> SumOf(data.arr),
              min |-> min,
              max |-> max,
              range |-> Sub(max, min)]

\* the number rounded to one decimal place fewer than asked for, when any
\* is asked for
StatCalculator_formatNumber_CoarserByOne(num, precision) ==
    IF num = Null \/ num = Undefined \/ isNaN(num) THEN Null
    ELSE IF Number_isInteger(num) THEN Number_toString(num)
    ELSE Number_toString(parseFloat(toFixed(num, IF precision > 0 THEN precision - 1 ELSE 0)))

\* the text of toFixed returned as it is
StatCalculator_formatNumber_KeepsZeros(num, precision) ==
    IF num = Null \/ num = Undefined \/ isNaN(num) THEN Null
    ELSE IF Number_isInteger(num) THEN Number_toString(num)
    ELSE toFixed(num, precision)

StatCalculator_formatNumber(num, precision) ==
    IF num = Null \/ num = Undefined \/ isNaN(num) THEN Null
    ELSE IF Number_isInteger(num) THEN Number_toString(num)
    ELSE Number_toString(parseFloat(toFixed(num, precision)))

\* the default value of formatNumber's precision parameter
DefaultPrecision == 4

\* the default value of calculateAll's numClasses parameter
DefaultNumClasses == 5

NoValidData ==
    Str(<<"N", "o", " ", "v", "a", "l", "i", "d", " ", "d", "a", "t", "a", " ",
          "p", "r", "o", "v", "i", "d", "e", "d">>)

\* the early return taken for an absent Sample only: an empty array gets a
\* record of statistics
StatCalculator_calculateAll_NoEmptyGuard(data, numClassesArg) ==
    LET numClasses == IF numClassesArg = Undefined
                      THEN FromInt(DefaultNumClasses) ELSE numClassesArg
        basic == StatCalculator_getBasicStats(data)
        quartiles == StatCalculator_calculateQuartiles(data)
        fmt(v) == StatCalculator_formatNumber(v, DefaultPrecision)
        num(field) == IF basic # Null THEN fmt(basic[field]) ELSE Null
    IN  IF Falsy(data) THEN [error |-> NoValidData]
        ELSE [count |-> FromInt(Len(data.arr)),
              sum |-> num("sum"),
              min |-> num("min"),
              max |-> num("max"),
              range |-> num("range"),
              mean |-> fmt(StatCalculator_calculateMean(data)),
              median |-> fmt(StatCalculator_calculateMedian(data)),
              mode |-> StatCalculator_calculateMode(data),
              variancePopulation |-> fmt(StatCalculator_calculateVariance(data, TRUE)),
              varianceSample |-> fmt(StatCalculator_calculateVariance(data, FALSE)),
              stdDevPopulation |-> fmt(StatCalculator_calculateStdDev(data, TRUE)),
              stdDevSample |-> fmt(StatCalculator_calculateStdDev(data, FALSE)),
              q1 |-> IF quartiles # Null THEN fmt(quartiles.q1) ELSE Null,
              q2 |-> IF quartiles # Null THEN fmt(quartiles.q2) ELSE Null,
              q3 |-> IF quartiles # Null THEN fmt(quartiles.q3) ELSE Null,
              iqr |-> fmt(StatCalculator_calculateIQR(data)),
              classWidth |-> fmt(StatCalculator_calculateClassWidth(data, numClasses)),
              numClasses |-> numClasses,
              rawData |-> data]

StatCalculator_calculateAll(data, numClassesArg) ==
    LET numClasses == IF numClassesArg = Undefined
                      THEN FromInt(DefaultNumClasses) ELSE numClassesArg
        basic == StatCalculator_getBasicStats(data)
        quartiles == StatCalculator_calculateQuartiles(data)
        fmt(v) == StatCalculator_formatNumber(v, DefaultPrecision)
    IN  IF NoData(data) THEN [error |-> NoValidData]
        ELSE [count |-> basic.count,
              sum |-> fmt(basic.sum),
              min |-> fmt(basic.min),
              max |-> fmt(basic.max),
              range |-> fmt(basic.range),
              mean |-> fmt(StatCalculator_calculateMean(data)),
              median |-> fmt(StatCalculator_calculateMedian(data)),
              mode |-> StatCalculator_calculateMode(data),
              variancePopulation |-> fmt(StatCalculator_calculateVariance(data, TRUE)),
              varianceSample |-> fmt(StatCalculator_calculateVariance(data, FALSE)),
              stdDevPopulation |-> fmt(StatCalculator_calculateStdDev(data, TRUE)),
              stdDevSample |-> fmt(StatCalculator_calculateStdDev(data, FALSE)),
              q1 |-> IF quartiles # Null THEN fmt(quartiles.q1) ELSE Null,
              q2 |-> IF quartiles # Null THEN fmt(quartiles.q2) ELSE Null,
              q3 |-> IF quartiles # Null THEN fmt(quartiles.q3) ELSE Null,
              iqr |-> fmt(StatCalculator_calculateIQR(data)),
              classWidth |-> fmt(StatCalculator_calculateClassWidth(data, numClasses)),
              numClasses |-> numClasses,
              rawData |-> data]

\* the semicolon left out of the separator class
SeparatorsWithoutSemicolon == {","} \cup WhiteSpace

\* the characters matched by the class [,\s;]
Separators == {",", ";"} \cup WhiteSpace

\* index of the first separator of cs, Len(cs) + 1 when there is none
RECURSIVE FirstSep(_, _)
FirstSep(cs, p) ==
    IF p > Len(cs) \/ cs[p] \in Separators THEN p ELSE FirstSep(cs, p + 1)

\* index of the first non-separator of cs at or after p
RECURSIVE SkipSeps(_, _)
SkipSeps(cs, p) ==
    IF p <= Len(cs) /\ cs[p] \in Separators THEN SkipSeps(cs, p + 1) ELSE p

\* String.prototype.split(/[,\s;]+/): the pieces between the runs of
\* separators; a run at either end leaves an empty piece there
RECURSIVE split(_)
split(cs) ==
    LET i == FirstSep(cs, 1)
    IN  IF i > Len(cs) THEN <<Str(cs)>>
        ELSE <<Str(SubSeq(cs, 1, i - 1))>>
               \o split(SubSeq(cs, SkipSeps(cs, i), Len(cs)))

StatCalculator_parseInput(input) ==
    IF Falsy(input) \/ ~IsString(input) THEN Arr(<<>>)
    ELSE Arr(SelectSeq(
               MapSeq(SelectSeq(MapSeq(split(input.str), trim),
                                LAMBDA v : v # EmptyString),
                      parseFloat),
               LAMBDA v : ~isNaN(v) /\ isFinite(v)))

(***************************************************************************)
(* Statistics (src/utils/statistics.js)                                    *)
(***************************************************************************)
\* the global isNaN(val) and Number(val): a string is converted first
CoerceNumber(val) == IF IsString(val) THEN StringToNumber(val) ELSE ToNumber(val)

Statistics_parseInput(input) ==
    IF Falsy(input) THEN Arr(<<>>)
    ELSE LET values == IF IsArray(input) THEN input.arr ELSE split(input.str)
             trimmed == MapSeq(values,
                               LAMBDA val : IF IsString(val) THEN trim(val) ELSE val)
         IN  Arr(MapSeq(SelectSeq(trimmed,
                                  LAMBDA val : val # EmptyString /\ ~isNaN(CoerceNumber(val))),
                        CoerceNumber))

Statistics_calculateMedian(data) ==
    IF NoData(data) THEN Null
    ELSE LET sorted == SortNumeric(data.arr)
             mid == Len(sorted) \div 2
         IN  IF Len(sorted) % 2 = 0
             THEN Div(Add(sorted[mid], sorted[mid + 1]), FromInt(2))
             ELSE sorted[mid + 1]

Statistics_calculateMode(data) ==
    IF NoData(data) THEN Null
    ELSE LET c == CountFrequencies(data.arr)
             modes == MapSeq(SelectSeq(Object_keys(c.frequency),
                                       LAMBDA val : GetKey(c.frequency, val) = c.maxFreq),
                             StringToNumber)
         IN  IF c.maxFreq = 1 THEN NoModeSentinel
             ELSE Arr(SortNumeric(modes))

\* no isNaN test: NaN goes through toFixed and Number
Statistics_formatNumber(num, precision) ==
    IF num = Null \/ num = Undefined THEN Null
    ELSE IF Number_isInteger(num) THEN Number_toString(num)
    ELSE Number_toString(StringToNumber(toFixed(num, precision)))

(***************************************************************************)
(* The inputs of the model                                                 *)
(***************************************************************************)
SeqsUpTo(S, k) == UNION {[1..m -> S] : m \in 0..k}

\* the numbers a Sample is drawn from: negative, fractional and two-digit
SampleValues == {Num(-1, 1), Num(1, 2), Num(1, 1), Num(2, 1), Num(10, 1)}

FromInts(is) == [i \in 1..Len(is) |-> FromInt(is[i])]

\* the Samples the specification names
QuartileExample == FromInts(<<1, 2, 3, 4, 5, 6, 7, 8>>)

VarianceExample == FromInts(<<2, 4, 4, 4, 5, 5, 7, 9>>)

NoModeExample == FromInts(<<1, 2, 3>>)

OneModeExample == FromInts(<<1, 1, 2, 3>>)

\* [0.03125, 0.0625]: values of more decimal places than formatNumber keeps
FineExample == <<Num(1, 32), Num(1, 16)>>

Samples ==
    SeqsUpTo(SampleValues, MaxLen)
        \cup {QuartileExample, VarianceExample, NoModeExample, OneModeExample,
              FineExample}

Alphabet == {"1", "2", ".", "-", ",", " ", ";", "a"}

NamedStrings ==
    { <<"1", ",", ",", " ", " ", ",", " ", "2">>,
      <<"3", "a", "b", "c">>,
      <<"1", "2", "p", "x", ",", "7">>,
      <<"I", "n", "f", "i", "n", "i", "t", "y">>,
      <<"-", "I", "n", "f", "i", "n", "i", "t", "y", " ", "1">>,
      <<"1", "e", "2">>,
      <<"2", "e", "-", "1", ";", "2">>,
      <<"\t", "1", "\n", "2", "\n">>,
      <<"0", "x", "1", "A">>,
      <<"N", "a", "N">>,
      <<"2", ".", "5", ",", "2", ".", "5", ",", "-", "1", "0">>,
      <<"1", ".", "2", "3", "4", "5", "6", ";", "-", "2">> }

Strings == SeqsUpTo(Alphabet, MaxStrLen) \cup NamedStrings

\* what a caller may hand to parseInput
RawInputs ==
    {Str(cs) : cs \in Strings}
        \cup {Arr(xs) : xs \in SeqsUpTo(SampleValues, 2)}
        \cup {Null}

\* what a caller may hand to the calculations as the Sample
DataInputs == {Arr(xs) : xs \in Samples} \cup {Null}

\* Samples of decimal literals, for the operations in double precision:
\* 0.1, 0.2, 0.3, 0.7, -1.1: the doubles these literals denote
DecimalValues == {Num(1, 10), Num(1, 5), Num(3, 10), Num(7, 10), Num(-11, 10)}

DecimalInputs == {Arr(xs) : xs \in SeqsUpTo(DecimalValues, MaxDoubleLen)} \cup {Null}

\* Sample arrays for the operations by reference
FrameSamples == SeqsUpTo({FromInt(1), FromInt(2), FromInt(3)}, MaxFrameLen)

\* what a caller may hand to formatNumber as the number: no number, or a
\* number computed from the Sample
FormatArguments(sample) ==
    {Null, Undefined, NaN}
        \cup (IF NoData(sample) THEN {}
              ELSE {sample.arr[1], StatCalculator_calculateMean(sample),
                    StatCalculator_calculateVariance(sample, TRUE)})

\* what a caller may hand to formatNumber as the precision
Precisions == {Undefined, FromInt(0), FromInt(2)}

\* what a caller may hand over as the class count
ClassCounts ==
    {Undefined, Null, FromInt(-1), FromInt(0), FromInt(1), FromInt(3), FromInt(5)}

(***************************************************************************)
(* The mean and the basic statistics in double precision: every addition   *)
(* and division rounded as the Number type rounds it; the results are      *)
(* doubles [neg, m, e].                                                    *)
(***************************************************************************)
\* data.reduce((acc, val) => acc + val, 0)
RECURSIVE DoubleSum(_)
DoubleSum(xs) ==
    IF xs = <<>> THEN DoubleZero
    ELSE DoubleAdd(DoubleSum(SubSeq(xs, 1, Len(xs) - 1)), ToDouble(xs[Len(xs)]))

Double_calculateMean(data) ==
    IF NoData(data) THEN Null
    ELSE DoubleDivInt(DoubleSum(data.arr), Len(data.arr))

Double_getBasicStats(data) ==
    IF NoData(data) THEN Null
    ELSE LET min == ToDouble(Math_min(data.arr))
             max == ToDouble(Math_max(data.arr))
         IN  [count |-> FromInt(Len(data.arr)),
              sum |-> DoubleSum(data.arr),
              min |-> min,
              max |-> max,
              range |-> DoubleSub(max, min)]

(***************************************************************************)
(* Arrays and objects by reference.  A heap is a sequence of cells, an     *)
(* array [arr |-> items] or an object [obj |-> fields] each; a reference   *)
(* [ref |-> a] names the cell at address a.  An operation on the heap      *)
(* gives [heap |-> the heap it leaves, value |-> what it returns]; the     *)
(* arrays and objects it creates are new cells, and the only step that     *)
(* writes to a cell is Array.prototype.sort.                               *)
(***************************************************************************)
Ref(a) == [ref |-> a]

IsRef(v) == DOMAIN v = {"ref"}

\* a new cell holding v
Alloc(h, v) == [heap |-> Append(h, v), value |-> Ref(Len(h) + 1)]

\* the array a Sample argument refers to; null and undefined are themselves
DataOf(h, data) == IF IsRef(data) THEN h[data.ref] ELSE data

\* the array itself instead of a copy of it
Spread_Alias(h, data) == [heap |-> h, value |-> data]

\* [...data]: a new array with the elements of data
Spread(h, data) == Alloc(h, h[data.ref])

\* array.sort((a, b) => a - b): sorts the array in place
SortInPlace(h, array) == [h EXCEPT ![array.ref] = Arr(SortNumeric(@.arr))]

\* array.slice(from, to): a new array
SliceOf(h, array, from, to) == Alloc(h, Arr(slice(h[array.ref].arr, from, to)))

\* sequencing: the step F applied to the outcome r of the step before it
Then(r, F(_)) == CHOOSE out \in {F(x) : x \in {r}} : TRUE

Heap_calculateMedian(h, data) ==
    IF NoData(DataOf(h, data)) THEN [heap |-> h, value |-> Null]
    ELSE Then(Spread(h, data), LAMBDA copy :
         Then(SortInPlace(copy.heap, copy.value), LAMBDA h1 :
             LET sorted == h1[copy.value.ref].arr
                 mid == Len(sorted) \div 2
             IN  [heap |-> h1,
                  value |-> IF Len(sorted) % 2 = 0
                            THEN Div(Add(sorted[mid], sorted[mid + 1]), FromInt(2))
                            ELSE sorted[mid + 1]]))

\* the modes are a new array
Heap_calculateMode(h, data) ==
    Then(StatCalculator_calculateMode(DataOf(h, data)), LAMBDA modes :
        IF modes = Null THEN [heap |-> h, value |-> Null] ELSE Alloc(h, modes))

Heap_calculateQuartiles(h, data) ==
    IF NoData(DataOf(h, data)) THEN [heap |-> h, value |-> Null]
    ELSE Then(Spread(h, data), LAMBDA copy :
         Then(SortInPlace(copy.heap, copy.value), LAMBDA h1 :
             LET sorted == copy.value
                 n == Len(h1[sorted.ref].arr)
                 upperStart == IF n % 2 = 0 THEN n \div 2 ELSE (n \div 2) + 1
             IN  Then(Heap_calculateMedian(h1, sorted), LAMBDA q2 :
                 Then(SliceOf(q2.heap, sorted, 0, n \div 2), LAMBDA lowerHalf :
                 Then(Heap_calculateMedian(lowerHalf.heap, lowerHalf.value), LAMBDA q1 :
                 Then(SliceOf(q1.heap, sorted, upperStart, n), LAMBDA upperHalf :
                 Then(Heap_calculateMedian(upperHalf.heap, upperHalf.value), LAMBDA q3 :
                     Alloc(q3.heap,
                           [obj |-> [q1 |-> q1.value, q2 |-> q2.value,
                                     q3 |-> q3.value]]))))))))

Heap_calculateIQR(h, data) ==
    Then(Heap_calculateQuartiles(h, data), LAMBDA quartiles :
        [heap |-> quartiles.heap,
         value |-> IF quartiles.value = Null THEN Null
                   ELSE LET fields == quartiles.heap[quartiles.value.ref].obj
                        IN  Sub(ToNumber(fields.q3), ToNumber(fields.q1))])

\* the result is a new object; its mode is the array calculateMode made and
\* its rawData is the array that was passed in
Heap_calculateAll(h, data, numClassesArg) ==
    IF NoData(DataOf(h, data)) THEN Alloc(h, [obj |-> [error |-> NoValidData]])
    ELSE Then(Heap_calculateQuartiles(h, data), LAMBDA quartiles :
         Then(Heap_calculateMedian(quartiles.heap, data), LAMBDA median :
         Then(Heap_calculateMode(median.heap, data), LAMBDA mode :
         Then(Heap_calculateIQR(mode.heap, data), LAMBDA iqr :
         Then(StatCalculator_calculateAll(DataOf(iqr.heap, data), numClassesArg),
              LAMBDA fields :
                  Alloc(iqr.heap,
                        [obj |-> [fields EXCEPT !.mode = mode.value,
                                                !.rawData = data]]))))))

(***************************************************************************)
(* StatCalculator.validateInput                                            *)
(***************************************************************************)
PleaseEnterSomeNumbers == Str(<<"P", "l", "e", "a", "s", "e", " ", "e", "n", "t", "e", "r", " ", "s", "o", "m", "e", " ", "n", "u", "m", "b", "e", "r", "s">>)

NoValidNumbersFound == Str(<<"N", "o", " ", "v", "a", "l", "i", "d", " ", "n", "u", "m", "b", "e", "r", "s", " ", "f", "o", "u", "n", "d", " ", "i", "n", " ", "i", "n", "p", "u", "t">>)

OnlyOneValue == Str(<<"O", "n", "l", "y", " ", "o", "n", "e", " ", "v", "a", "l", "u", "e", " ", "-", " ", "s", "o", "m", "e", " ", "s", "t", "a", "t", "i", "s", "t", "i", "c", "s", " ", "r", "e", "q", "u", "i", "r", "e", " ", "m", "o", "r", "e", " ", "d", "a", "t", "a">>)

\* the test for an absent input only: a blank input goes on to parseInput
StatCalculator_validateInput_NoTrim(input) ==
    IF Falsy(input)
    THEN [valid |-> FALSE, data |-> Arr(<<>>), error |-> PleaseEnterSomeNumbers]
    ELSE LET parsed == StatCalculator_parseInput(input)
         IN  IF Len(parsed.arr) = 0
             THEN [valid |-> FALSE, data |-> Arr(<<>>), error |-> NoValidNumbersFound]
             ELSE IF Len(parsed.arr) < 2
             THEN [valid |-> TRUE, data |-> parsed, warning |-> OnlyOneValue]
             ELSE [valid |-> TRUE, data |-> parsed, error |-> Null]

\* input is a string or absent: the value of the text area
StatCalculator_validateInput(input) ==
    IF Falsy(input) \/ trim(input) = EmptyString
    THEN [valid |-> FALSE, data |-> Arr(<<>>), error |-> PleaseEnterSomeNumbers]
    ELSE LET parsed == StatCalculator_parseInput(input)
         IN  IF Len(parsed.arr) = 0
             THEN [valid |-> FALSE, data |-> Arr(<<>>), error |-> NoValidNumbersFound]
             ELSE IF Len(parsed.arr) < 2
             THEN [valid |-> TRUE, data |-> parsed, warning |-> OnlyOneValue]
             ELSE [valid |-> TRUE, data |-> parsed, error |-> Null]

(***************************************************************************)
(* The application controller (app.js).  The state of App is a record; a   *)
(* handler is a function from the state before to the state after.  The    *)
(* fields toasts, calculated and exported record what the handler that ran *)
(* last showed, handed to calculateAll and handed to the browser.          *)
(***************************************************************************)
\* length of the run of hexadecimal digits of cs that starts at position p
RECURSIVE HexRun(_, _)
HexRun(cs, p) ==
    IF p <= Len(cs) /\ cs[p] \in RadixDigits(16) THEN 1 + HexRun(cs, p + 1) ELSE 0

RECURSIVE HexValue(_, _, _)
HexValue(cs, p, k) ==
    IF k = 0 THEN 0
    ELSE 16 * HexValue(cs, p, k - 1) + RadixDigitVal(cs[p + k - 1])

\* parseInt(v) with no radix: leading white space is skipped, then a sign,
\* then the longest run of digits is converted; undefined reads as the text
\* "undefined"
parseInt(v) ==
    IF ~IsString(v) THEN NaN
    ELSE LET cs == TrimLeft(v.str)
             hasSign == cs # <<>> /\ cs[1] \in {"+", "-"}
             sgn == IF hasSign /\ cs[1] = "-" THEN -1 ELSE 1
             p0 == IF hasSign THEN 2 ELSE 1
             hex == StartsWith(cs, p0, <<"0", "x">>) \/ StartsWith(cs, p0, <<"0", "X">>)
             nh == HexRun(cs, p0 + 2)
             nd == DigitRun(cs, p0)
         IN  IF hex THEN (IF nh = 0 THEN NaN
                          ELSE FromInt(sgn * HexValue(cs, p0 + 2, nh)))
             ELSE IF nd = 0 THEN NaN
             ELSE FromInt(sgn * DigitsValue(cs, p0, nd))

\* String.prototype.substring(0, k)
substring(s, k) == Str(SubSeq(s.str, 1, IF Len(s.str) < k THEN Len(s.str) ELSE k))

\* JSON.stringify of a list of entries that hold numbers, strings and nulls
JSON_stringify(v) == [json |-> v]

(***************************************************************************)
(* ChartManager: the data handed to the two charts                         *)
(***************************************************************************)
Math_floor(a) == IF a.d = 0 THEN a ELSE FromInt(a.n \div a.d)

\* parseFloat of a field of the statistics: a text, or null, which reads as
\* the text "null"
ParseField(v) == IF IsString(v) THEN parseFloat(v) ELSE NaN

\* the second bar measured downwards
ChartManager_createBoxPlot_SecondBarReversed(stats) ==
    LET min == ParseField(stats.min)
        max == ParseField(stats.max)
        q1 == ParseField(stats.q1)
        q2 == ParseField(stats.q2)
        q3 == ParseField(stats.q3)
    IN  [minToQ1 |-> Sub(q1, min),
         q1ToMedian |-> Sub(q1, q2),
         medianToQ3 |-> Sub(q3, q2),
         q3ToMax |-> Sub(max, q3)]

\* the four stacked bars of the box plot
ChartManager_createBoxPlot(stats) ==
    LET min == ParseField(stats.min)
        max == ParseField(stats.max)
        q1 == ParseField(stats.q1)
        q2 == ParseField(stats.q2)
        q3 == ParseField(stats.q3)
    IN  [minToQ1 |-> Sub(q1, min),
         q1ToMedian |-> Sub(q2, q1),
         medianToQ3 |-> Sub(q3, q2),
         q3ToMax |-> Sub(max, q3)]

\* the default value of createHistogram's numBins parameter
DefaultNumBins == 8

\* the bin a value is counted in; NaN when the bins have no width
BinIndex(value, min, binWidth, numBins) ==
    LET binIndex == Math_floor(Div(Sub(value, min), binWidth))
        below == IF Leq(numBins, binIndex) THEN Sub(numBins, FromInt(1)) ELSE binIndex
    IN  IF isNaN(binIndex) THEN NaN
        ELSE IF Lt(below, Zero) THEN Zero ELSE below

\* the bins of the histogram, for a page that has the canvas: bins are the
\* counts of the bins pushed by the loop, at the indices 0 .. numBins-1;
\* stray is the number of values whose increment went to a property of the
\* array that is not one of these bins
ChartManager_createHistogram(data, numBinsArg) ==
    IF NoData(data) THEN Undefined
    ELSE
    Then(IF numBinsArg = Undefined THEN FromInt(DefaultNumBins) ELSE numBinsArg,
         LAMBDA numBins :
    Then(Math_min(data.arr), LAMBDA min :
    Then(Div(Sub(Math_max(data.arr), min), numBins), LAMBDA binWidth :
    Then([k \in 1..Len(data.arr) |-> BinIndex(data.arr[k], min, binWidth, numBins)],
         LAMBDA index :
        [bins |-> [i \in 1..numBins.n |->
                      Cardinality({k \in 1..Len(data.arr) : index[k] = FromInt(i - 1)})],
         labels |-> [i \in 1..numBins.n |->
                        Then(Add(min, Mul(FromInt(i - 1), binWidth)), LAMBDA binStart :
                            Str(toFixed(binStart, 1).str \o <<"-">>
                                \o toFixed(Add(binStart, binWidth), 1).str))],
         stray |-> Cardinality({k \in 1..Len(data.arr) :
                                   index[k] \notin {FromInt(i) : i \in 0..(numBins.n - 1)}})]))))

\* how many bins createHistogram may be asked for
BinCounts == {Undefined, FromInt(1), FromInt(2), FromInt(3)}

\* ChartManager before the first chart and after destroyCharts
NoCharts ==
    [currentStats |-> Null, currentData |-> Null, boxPlot |-> Null, histogram |-> Null]

\* parseInt(stats.numClasses) || 8: the number is read from its text
BinsFor(numClasses) ==
    LET parsed == parseInt(IF isFinite(numClasses) /\ numClasses \notin {Null, Undefined}
                           THEN Number_toString(numClasses) ELSE numClasses)
    IN  IF Falsy(parsed) THEN FromInt(DefaultNumBins) ELSE parsed

ChartManager_updateCharts(stats, rawData) ==
    Then(ChartManager_createBoxPlot(stats), LAMBDA boxPlot :
    Then(ChartManager_createHistogram(rawData, BinsFor(stats.numClasses)),
         LAMBDA histogram :
        [currentStats |-> stats,
         currentData |-> rawData,
         boxPlot |-> boxPlot,
         histogram |-> histogram]))

\* the number of history entries kept
MaxHistory == 10

\* the number of characters of the input kept in a history entry
MaxEntryInput == 50

Toast(message, type) == [message |-> message, type |-> type]

\* App.state and the two input fields after DOMContentLoaded, with nothing
\* in local storage
InitialApp ==
    [isLoading |-> FALSE,
     currentResults |-> Null,
     currentData |-> Null,
     history |-> Arr(<<>>),
     storage |-> Null,
     dataInput |-> EmptyString,
     numClasses |-> Str(<<"5">>),
     charts |-> NoCharts,
     toasts |-> <<>>,
     calculated |-> Undefined,
     exported |-> Undefined]

\* what every handler starts from: nothing shown or handed over yet
Handling(st) ==
    [st EXCEPT !.toasts = <<>>, !.calculated = Undefined, !.exported = Undefined]

\* every entry is kept: the list is not cut to MaxHistory
App_addToHistory_NoLimit(st, input, results, now) ==
    LET entry == [id |-> FromInt(now),
                  input |-> substring(input, MaxEntryInput),
                  mean |-> results.mean,
                  timestamp |-> [iso |-> now]]
        unshifted == <<entry>> \o st.history.arr
    IN  [st EXCEPT !.history = Arr(unshifted),
                   !.storage = JSON_stringify(Arr(unshifted))]

\* addToHistory and the saveHistory it ends with; now is the clock reading
App_addToHistory(st, input, results, now) ==
    LET entry == [id |-> FromInt(now),
                  input |-> substring(input, MaxEntryInput),
                  mean |-> results.mean,
                  timestamp |-> [iso |-> now]]
        unshifted == <<entry>> \o st.history.arr
        kept == IF Len(unshifted) > MaxHistory
                THEN SubSeq(unshifted, 1, MaxHistory) ELSE unshifted
    IN  [st EXCEPT !.history = Arr(kept),
                   !.storage = JSON_stringify(Arr(kept))]

CalculationsComplete == Str(<<"C", "a", "l", "c", "u", "l", "a", "t", "i", "o", "n", "s", " ", "c", "o", "m", "p", "l", "e", "t", "e", "!">>)

\* the results are kept even when validation failed
App_handleCalculate_KeepsInvalid(st, now) ==
    IF st.isLoading THEN Handling(st)
    ELSE
    Then(parseInt(st.numClasses), LAMBDA parsed :
    Then(IF Falsy(parsed) THEN FromInt(5) ELSE parsed, LAMBDA numClasses :
    Then(StatCalculator_validateInput(st.dataInput), LAMBDA validation :
    IF ~validation.valid
    THEN Then(StatCalculator_calculateAll(validation.data, numClasses), LAMBDA results :
             [Handling(st) EXCEPT
                  !.currentResults = results,
                  !.currentData = validation.data,
                  !.toasts = <<Toast(validation.error, "error")>>])
    ELSE
    Then(StatCalculator_calculateAll(validation.data, numClasses), LAMBDA results :
    Then(ChartManager_updateCharts(results, validation.data), LAMBDA charts :
    Then([Handling(st) EXCEPT
              !.calculated = [data |-> validation.data, numClasses |-> numClasses],
              !.currentResults = results,
              !.currentData = validation.data,
              !.charts = charts],
         LAMBDA calculated :
    Then(App_addToHistory(calculated, st.dataInput, results, now), LAMBDA saved :
        [saved EXCEPT
             !.toasts = (IF "warning" \in DOMAIN validation
                         THEN <<Toast(validation.warning, "info")>> ELSE <<>>)
                        \o <<Toast(CalculationsComplete, "success")>>])))))))

\* handleCalculate, from the click to the end of its finally block; the
\* handler has no await, so it runs to its end before any other handler
App_handleCalculate(st, now) ==
    IF st.isLoading THEN Handling(st)
    ELSE
    Then(parseInt(st.numClasses), LAMBDA parsed :
    Then(IF Falsy(parsed) THEN FromInt(5) ELSE parsed, LAMBDA numClasses :
    Then(StatCalculator_validateInput(st.dataInput), LAMBDA validation :
    IF ~validation.valid
    THEN [Handling(st) EXCEPT !.toasts = <<Toast(validation.error, "error")>>]
    ELSE
    Then(StatCalculator_calculateAll(validation.data, numClasses), LAMBDA results :
    Then(ChartManager_updateCharts(results, validation.data), LAMBDA charts :
    Then([Handling(st) EXCEPT
              !.calculated = [data |-> validation.data, numClasses |-> numClasses],
              !.currentResults = results,
              !.currentData = validation.data,
              !.charts = charts],
         LAMBDA calculated :
    Then(App_addToHistory(calculated, st.dataInput, results, now), LAMBDA saved :
        [saved EXCEPT
             !.toasts = (IF "warning" \in DOMAIN validation
                         THEN <<Toast(validation.warning, "info")>> ELSE <<>>)
                        \o <<Toast(CalculationsComplete, "success")>>])))))))

NoResultsToExport == Str(<<"N", "o", " ", "r", "e", "s", "u", "l", "t", "s", " ", "t", "o", " ", "e", "x", "p", "o", "r", "t">>)

CsvExported == Str(<<"C", "S", "V", " ", "e", "x", "p", "o", "r", "t", "e", "d", " ", "s", "u", "c", "c", "e", "s", "s", "f", "u", "l", "l", "y", "!">>)

App_exportToCsv(st) ==
    IF Falsy(st.currentResults)
    THEN [Handling(st) EXCEPT !.toasts = <<Toast(NoResultsToExport, "error")>>]
    ELSE [Handling(st) EXCEPT
              !.exported = [csv |-> [results |-> st.currentResults,
                                     rawData |-> st.currentData]],
              !.toasts = <<Toast(CsvExported, "success")>>]

NoResultsToPrint == Str(<<"N", "o", " ", "r", "e", "s", "u", "l", "t", "s", " ", "t", "o", " ", "p", "r", "i", "n", "t">>)

App_printResults(st) ==
    IF Falsy(st.currentResults)
    THEN [Handling(st) EXCEPT !.toasts = <<Toast(NoResultsToPrint, "error")>>]
    ELSE [Handling(st) EXCEPT !.exported = [print |-> TRUE]]

Cleared == Str(<<"C", "l", "e", "a", "r", "e", "d", "!">>)

App_handleClear(st) ==
    [Handling(st) EXCEPT
         !.dataInput = EmptyString,
         !.numClasses = Str(<<"5">>),
         !.currentResults = Null,
         !.currentData = Null,
         !.charts = NoCharts,
         !.toasts = <<Toast(Cleared, "info")>>]

\* what the class-count field may hold when the button is clicked; Undefined
\* when the page has no such field
ClassFields ==
    {Undefined, EmptyString, Str(<<"5">>), Str(<<"0">>), Str(<<"-", "1">>),
     Str(<<"3">>)}

(***************************************************************************)
(* The state machine: a caller holds a raw input or a Sample and applies   *)
(* one of the operations to it.                                            *)
(***************************************************************************)
VARIABLES
    raw,      \* the raw input handed to parseInput, Undefined when absent
    data,     \* the Sample handed to the calculations, Undefined when absent
    op,       \* the operation applied last
    arg,      \* its second argument, Undefined when it has none
    result,   \* what it returned
    heap,     \* the arrays and objects that exist, when they are held by reference
    returned, \* the results of the calls so far, when they are kept
    app,      \* the state of the application controller, when there is one
    game,     \* the state of the Wordle game, when there is one
    chat      \* the state of the chat handler, when there is one

vars == <<raw, data, op, arg, result, heap, returned, app, game, chat>>

\* no page is open
NoPage == app = Undefined /\ game = Undefined /\ chat = Undefined

Init ==
    /\ op = "init"
    /\ arg = Undefined
    /\ result = Undefined
    /\ \/ raw = Undefined /\ data \in DataInputs
       \/ raw \in RawInputs /\ data = Undefined
    /\ heap = <<>>
    /\ returned = <<>>
    /\ NoPage

\* one call on a fresh input: the operations keep no state between calls
Call(name, a, r) ==
    /\ op = "init"
    /\ op' = name
    /\ arg' = a
    /\ result' = r
    /\ UNCHANGED <<raw, data, heap, returned, app, game, chat>>

ParseInput == Call("StatCalculator.parseInput", Undefined, StatCalculator_parseInput(raw))

CalculateMean == Call("StatCalculator.calculateMean", Undefined, StatCalculator_calculateMean(data))

CalculateMedian == Call("StatCalculator.calculateMedian", Undefined, StatCalculator_calculateMedian(data))

CalculateMode == Call("StatCalculator.calculateMode", Undefined, StatCalculator_calculateMode(data))

CalculateVariance ==
    \E isPopulation \in BOOLEAN :
        Call("StatCalculator.calculateVariance", [bool |-> isPopulation],
             StatCalculator_calculateVariance(data, isPopulation))

CalculateStdDev ==
    \E isPopulation \in BOOLEAN :
        Call("StatCalculator.calculateStdDev", [bool |-> isPopulation],
             StatCalculator_calculateStdDev(data, isPopulation))

CalculateQuartiles == Call("StatCalculator.calculateQuartiles", Undefined, StatCalculator_calculateQuartiles(data))

CalculateIQR == Call("StatCalculator.calculateIQR", Undefined, StatCalculator_calculateIQR(data))

CalculateClassWidth ==
    \E numClasses \in ClassCounts :
        Call("StatCalculator.calculateClassWidth", numClasses,
             StatCalculator_calculateClassWidth(data, numClasses))

GetBasicStats == Call("StatCalculator.getBasicStats", Undefined, StatCalculator_getBasicStats(data))

CalculateAll ==
    \E numClasses \in ClassCounts :
        Call("StatCalculator.calculateAll", numClasses,
             StatCalculator_calculateAll(data, numClasses))

StatisticsParseInput == Call("Statistics.parseInput", Undefined, Statistics_parseInput(raw))

StatisticsCalculateMedian == Call("Statistics.calculateMedian", Undefined, Statistics_calculateMedian(data))

StatisticsCalculateMode == Call("Statistics.calculateMode", Undefined, Statistics_calculateMode(data))

StatisticsCalculateClassWidth ==
    \E numClasses \in ClassCounts :
        Call("Statistics.calculateClassWidth", numClasses,
             Statistics_calculateClassWidth(data, numClasses))

FormatNumber ==
    \E num \in FormatArguments(data), precision \in Precisions :
        Call("StatCalculator.formatNumber", [num |-> num, precision |-> precision],
             StatCalculator_formatNumber(
                 num, IF precision = Undefined THEN DefaultPrecision ELSE precision.n))

StatisticsFormatNumber ==
    \E num \in FormatArguments(data), precision \in Precisions :
        Call("Statistics.formatNumber", [num |-> num, precision |-> precision],
             Statistics_formatNumber(
                 num, IF precision = Undefined THEN DefaultPrecision ELSE precision.n))

\* the text area holds a string, or is absent
ValidateInput ==
    /\ ~IsArray(raw)
    /\ Call("StatCalculator.validateInput", Undefined, StatCalculator_validateInput(raw))

\* one click on Calculate on a page just opened, with a text of up to
\* MaxStrLen characters in the text area (the statistics of longer decimals
\* leave the range of the exact arithmetic)
HandleCalculate ==
    /\ (IsString(raw) /\ Len(raw.str) <= MaxStrLen) \/ raw = Undefined
    /\ \E field \in ClassFields :
       \E typed \in {[InitialApp EXCEPT !.dataInput = raw, !.numClasses = field]} :
           Call("App.handleCalculate", field, App_handleCalculate(typed, 1))

CreateHistogram ==
    \E numBins \in BinCounts :
        Call("ChartManager.createHistogram", numBins,
             ChartManager_createHistogram(data, numBins))

\* the charts of a result of calculateAll, as handleCalculate asks for them
UpdateCharts ==
    /\ ~NoData(data)
    /\ \E numClasses \in ClassCounts :
           Call("ChartManager.updateCharts", numClasses,
                Then(StatCalculator_calculateAll(data, numClasses), LAMBDA stats :
                    ChartManager_updateCharts(stats, data)))

Next ==
    \/ ParseInput
    \/ CalculateMean
    \/ CalculateMedian
    \/ CalculateMode
    \/ CalculateVariance
    \/ CalculateStdDev
    \/ CalculateQuartiles
    \/ CalculateIQR
    \/ CalculateClassWidth
    \/ GetBasicStats
    \/ CalculateAll
    \/ StatisticsParseInput
    \/ StatisticsCalculateMedian
    \/ StatisticsCalculateMode
    \/ StatisticsCalculateClassWidth

Spec == Init /\ [][Next]_vars

(***************************************************************************)
(* A caller of the same inputs who parses the raw input                    *)
(***************************************************************************)
ParseNext ==
    \/ ParseInput
    \/ StatisticsParseInput

ParseSpec == Init /\ [][ParseNext]_vars

(***************************************************************************)
(* A caller of the same inputs who formats a number for display            *)
(***************************************************************************)
FormatNext ==
    \/ FormatNumber
    \/ StatisticsFormatNumber

FormatSpec == Init /\ [][FormatNext]_vars

(***************************************************************************)
(* A caller of the same inputs who validates the text and clicks Calculate *)
(***************************************************************************)
PageNext ==
    \/ ValidateInput
    \/ HandleCalculate

PageSpec == Init /\ [][PageNext]_vars

(***************************************************************************)
(* A caller of the same inputs who asks for the charts of a Sample         *)
(***************************************************************************)
ChartNext ==
    \/ CreateHistogram
    \/ UpdateCharts

ChartSpec == Init /\ [][ChartNext]_vars

(***************************************************************************)
(* Definitions used to state the properties                                *)
(***************************************************************************)
\* the number of elements of the Sample; an absent Sample has none
SampleSize == IF Falsy(data) THEN 0 ELSE Len(data.arr)

HasSample == SampleSize > 0

RangeOf(xs) == {xs[i] : i \in 1..Len(xs)}

\* the number of occurrences of x in xs
Occurrences(xs, x) == Cardinality({i \in 1..Len(xs) : xs[i] = x})

MaxOccurrences(xs) ==
    CHOOSE m \in 1..Len(xs) :
        /\ \E x \in RangeOf(xs) : Occurrences(xs, x) = m
        /\ \A x \in RangeOf(xs) : Occurrences(xs, x) <= m

\* the k-th smallest element of xs in numeric order, k in 1..Len(xs)
OrderStat(xs, k) ==
    CHOOSE x \in RangeOf(xs) :
        /\ Cardinality({i \in 1..Len(xs) : Lt(xs[i], x)}) < k
        /\ Cardinality({i \in 1..Len(xs) : Leq(xs[i], x)}) >= k

Average(a, b) == Div(Add(a, b), FromInt(2))

\* the median of the elements of ranks lo..hi of xs, Null when there are none
MedianOfRanks(xs, lo, hi) ==
    LET c == hi - lo + 1
    IN  IF c <= 0 THEN Null
        ELSE IF c % 2 = 1 THEN OrderStat(xs, lo + (c - 1) \div 2)
        ELSE Average(OrderStat(xs, lo + (c \div 2) - 1), OrderStat(xs, lo + c \div 2))

StrictlyAscending(xs) == \A i \in 1..(Len(xs) - 1) : Lt(xs[i], xs[i + 1])

StatisticFields ==
    {"count", "sum", "min", "max", "range", "mean", "median", "mode",
     "variancePopulation", "varianceSample", "stdDevPopulation", "stdDevSample",
     "q1", "q2", "q3", "iqr", "classWidth", "numClasses", "rawData"}

(***************************************************************************)
(* C1: calculateAll has exactly two outcomes: for an empty, null or absent *)
(* Sample it returns the error marker, an object with an error field and   *)
(* no statistic; for every non-empty Sample it returns a record with every *)
(* statistic field and no error field.                                     *)
(***************************************************************************)
CalculateAllTwoOutcomes ==
    op = "StatCalculator.calculateAll" =>
        IF HasSample
        THEN DOMAIN result = StatisticFields
        ELSE DOMAIN result = {"error"} /\ IsString(result.error)

EmptySampleGivesErrorMarker ==
    /\ op = "StatCalculator.calculateAll"
    /\ data = Arr(<<>>)
    /\ result = [error |-> NoValidData]

(***************************************************************************)
(* C2: calculateQuartiles uses the exclusive-median method on the sorted   *)
(* Sample: q1 is the median of the ranks 1..floor(n/2), q3 the median of   *)
(* the ranks n/2+1..n for even n and floor(n/2)+2..n for odd n, q2 the     *)
(* median of all; [1,2,3,4,5,6,7,8] gives 2.5, 4.5, 6.5.                   *)
(***************************************************************************)
QuartilesExclusiveMedian ==
    (op = "StatCalculator.calculateQuartiles" /\ HasSample) =>
        LET xs == data.arr
            n == Len(xs)
            h == n \div 2
        IN  /\ result.q1 = MedianOfRanks(xs, 1, h)
            /\ result.q2 = MedianOfRanks(xs, 1, n)
            /\ result.q3 = MedianOfRanks(xs, IF n % 2 = 0 THEN h + 1 ELSE h + 2, n)
            /\ data = Arr(QuartileExample) =>
                   result = [q1 |-> Num(5, 2), q2 |-> Num(9, 2), q3 |-> Num(13, 2)]

OddSampleQuartilesComputed ==
    /\ op = "StatCalculator.calculateQuartiles"
    /\ data = Arr(<<FromInt(10), FromInt(1), FromInt(2)>>)
    /\ result = [q1 |-> FromInt(1), q2 |-> FromInt(2), q3 |-> FromInt(10)]

(***************************************************************************)
(* C3: calculateMedian returns the middle element of the numerically       *)
(* sorted Sample for an odd length, the average of the two central         *)
(* elements for an even length, and null for an empty Sample.              *)
(***************************************************************************)
MedianIsNumericMiddle ==
    op \in {"StatCalculator.calculateMedian", "Statistics.calculateMedian"} =>
        IF HasSample
        THEN result = MedianOfRanks(data.arr, 1, Len(data.arr))
        ELSE result = Null

MedianOfUnsortedTwoDigitSample ==
    /\ op = "StatCalculator.calculateMedian"
    /\ data = Arr(<<FromInt(10), FromInt(1), FromInt(2)>>)
    /\ result = FromInt(2)

(***************************************************************************)
(* C4: calculateMode returns the 'no mode' sentinel when every distinct    *)
(* value occurs once, and otherwise exactly the distinct values of maximum *)
(* frequency, each once; [1,2,3] gives the sentinel, [1,1,2,3] gives [1].  *)
(***************************************************************************)
ModeIsMostFrequentValues ==
    (op \in {"StatCalculator.calculateMode", "Statistics.calculateMode"} /\ HasSample) =>
        LET xs == data.arr
            m == MaxOccurrences(xs)
        IN  /\ IF m = 1 THEN result = NoModeSentinel
               ELSE /\ RangeOf(result.arr) = {x \in RangeOf(xs) : Occurrences(xs, x) = m}
                    /\ \A i, j \in 1..Len(result.arr) :
                           result.arr[i] = result.arr[j] => i = j
            /\ data = Arr(NoModeExample) => result = NoModeSentinel
            /\ data = Arr(OneModeExample) => result = Arr(<<FromInt(1)>>)

TiedModesReturned ==
    /\ op = "StatCalculator.calculateMode"
    /\ data = Arr(<<FromInt(2), FromInt(1), FromInt(2), FromInt(1)>>)
    /\ Len(result.arr) = 2

(***************************************************************************)
(* C5: whenever some value of the Sample repeats, the modes returned by    *)
(* calculateMode, and the mode field of calculateAll, are in strictly      *)
(* ascending numeric order.                                                *)
(***************************************************************************)
ModesStrictlyAscending ==
    (HasSample /\ MaxOccurrences(data.arr) > 1) =>
        /\ op \in {"StatCalculator.calculateMode", "Statistics.calculateMode"} =>
               StrictlyAscending(result.arr)
        /\ op = "StatCalculator.calculateAll" => StrictlyAscending(result.mode.arr)

(***************************************************************************)
(* C6: population variance and standard deviation are null iff n = 0,      *)
(* sample variance and standard deviation are null iff n < 2; a standard   *)
(* deviation is null exactly when its variance is, and is otherwise        *)
(* non-negative; the population variance of a single element is 0.         *)
(***************************************************************************)
NonNegative(v) == IsSurd(v) \/ (IsRational(v) /\ v.n >= 0)

DispersionDefinedByLength ==
    /\ op = "StatCalculator.calculateVariance" =>
           /\ result = Null <=> (IF arg.bool THEN SampleSize = 0 ELSE SampleSize < 2)
           /\ (arg.bool /\ SampleSize = 1) => result = Zero
    /\ op = "StatCalculator.calculateStdDev" =>
           /\ result = Null <=> (IF arg.bool THEN SampleSize = 0 ELSE SampleSize < 2)
           /\ result = Null <=> StatCalculator_calculateVariance(data, arg.bool) = Null
           /\ result # Null => NonNegative(result)

SingleElementSampleVarianceUndefined ==
    /\ op = "StatCalculator.calculateVariance"
    /\ arg = [bool |-> FALSE]
    /\ SampleSize = 1
    /\ result = Null

(***************************************************************************)
(* C7: for n >= 1 the population variance is the sum of the squared        *)
(* deviations from the mean divided by n, for n >= 2 the sample variance   *)
(* is that sum divided by n - 1, so n * population = (n - 1) * sample;     *)
(* [2,4,4,4,5,5,7,9] gives 4 and 32/7.                                     *)
(***************************************************************************)
RECURSIVE SumFirst(_, _)
SumFirst(f, k) == IF k = 0 THEN Zero ELSE Add(SumFirst(f, k - 1), f[k])

SumSquaredDeviations(xs) ==
    LET n == Len(xs)
        mu == Div(SumFirst(xs, n), FromInt(n))
        dev == [i \in 1..n |-> Mul(Sub(xs[i], mu), Sub(xs[i], mu))]
    IN  SumFirst(dev, n)

TokenSeparators == {",", ";", " ", "\t", "\n", "\r"}

TokenStarts(cs) ==
    {i \in 1..Len(cs) : cs[i] \notin TokenSeparators
                          /\ (i = 1 \/ cs[i - 1] \in TokenSeparators)}

TokenEnd(cs, i) ==
    CHOOSE j \in i..Len(cs) :
        /\ \A k \in i..j : cs[k] \notin TokenSeparators
        /\ (j = Len(cs) \/ cs[j + 1] \in TokenSeparators)

\* the maximal separator-free pieces of cs, from left to right
Tokens(cs) ==
    LET starts == TokenStarts(cs)
        start(k) == CHOOSE i \in starts :
                        Cardinality({j \in starts : j < i}) = k - 1
    IN  [k \in 1..Cardinality(starts) |->
            Str(SubSeq(cs, start(k), TokenEnd(cs, start(k))))]

\* the values under conv of the tokens that keep selects, in order
KeptValues(cs, keep(_), conv(_)) ==
    LET ts == Tokens(cs)
        kept == {k \in 1..Len(ts) : keep(ts[k])}
        pick(m) == CHOOSE k \in kept : Cardinality({j \in kept : j < k}) = m - 1
    IN  [m \in 1..Cardinality(kept) |-> conv(ts[pick(m)])]

ExampleInput == Str(<<"1", ",", ",", " ", " ", ",", " ", "2">>)

ParseSplitsAtSeparatorRuns ==
    /\ (op = "StatCalculator.parseInput" /\ IsString(raw)) =>
           /\ result = Arr(KeptValues(raw.str,
                                      LAMBDA t : isFinite(parseFloat(t)), parseFloat))
           /\ raw = ExampleInput => result = Arr(<<FromInt(1), FromInt(2)>>)
    /\ (op = "Statistics.parseInput" /\ IsString(raw)) =>
           /\ result = Arr(KeptValues(raw.str,
                                      LAMBDA t : ~isNaN(StringToNumber(t)), StringToNumber))
           /\ raw = ExampleInput => result = Arr(<<FromInt(1), FromInt(2)>>)

ExampleInputParsed ==
    /\ op = "StatCalculator.parseInput"
    /\ raw = ExampleInput
    /\ result = Arr(<<FromInt(1), FromInt(2)>>)

(***************************************************************************)
(* C9: parseInput keeps a token if and only if the whole token is the      *)
(* literal of a finite real number, a token with trailing non-numeric      *)
(* characters is dropped, and no element of the result is NaN or infinite. *)
(***************************************************************************)
IsFiniteLiteral(t) ==
    /\ t.str # <<>>
    /\ DecimalPrefix(t.str).len = Len(t.str)
    /\ isFinite(DecimalPrefix(t.str).val)

LiteralValue(t) == DecimalPrefix(t.str).val

ParseKeepsOnlyWholeFiniteLiterals ==
    (op \in {"StatCalculator.parseInput", "Statistics.parseInput"} /\ IsString(raw)) =>
        /\ result = Arr(KeptValues(raw.str, IsFiniteLiteral, LiteralValue))
        /\ \A i \in 1..Len(result.arr) : isFinite(result.arr[i])

(***************************************************************************)
(* C10: when the raw input is an array of numbers, parseInput returns a    *)
(* Sample with those numbers in the same order.                            *)
(***************************************************************************)
ParseReturnsArrayInput ==
    (op \in {"StatCalculator.parseInput", "Statistics.parseInput"} /\ IsArray(raw)) =>
        result = raw

(***************************************************************************)
(* C11: parseInput never raises and never reports an error: null, absent   *)
(* or empty input gives the empty Sample, and a string with malformed      *)
(* tokens gives the Sample of its valid tokens (the malformed ones are     *)
(* filtered, the input is not rejected).                                   *)
(***************************************************************************)
ParseFiltersMalformedTokens ==
    op \in {"StatCalculator.parseInput", "Statistics.parseInput"} =>
        /\ IsArray(result)
        /\ raw \in {Null, Undefined, EmptyString} => result = Arr(<<>>)
        /\ (IsString(raw) /\ raw # EmptyString) =>
               \A i \in 1..Len(result.arr) :
                   \E t \in RangeOf(Tokens(raw.str)) :
                       IsFiniteLiteral(t) /\ result.arr[i] = LiteralValue(t)

(***************************************************************************)
(* C12: in every result of calculateAll a field whose statistic is         *)
(* undefined for the Sample is null, never "0" or "": varianceSample and   *)
(* stdDevSample for n = 1, q1 and q3 for n = 1, and iqr whenever q1 or q3  *)
(* is undefined.                                                           *)
(***************************************************************************)
UndefinedFieldsAreNull ==
    (op = "StatCalculator.calculateAll" /\ HasSample) =>
        /\ SampleSize = 1 =>
               /\ result.varianceSample = Null
               /\ result.stdDevSample = Null
               /\ result.q1 = Null
               /\ result.q3 = Null
        /\ (result.q1 = Null \/ result.q3 = Null) =>
               /\ result.iqr = Null
               /\ result.iqr \notin {Str(<<"0">>), EmptyString}

(***************************************************************************)
(* C15: on every Sample for which calculateQuartiles gives a q1 and a q3,  *)
(* calculateIQR returns q3 - q1 of those quartiles (4 for                  *)
(* [1,2,3,4,5,6,7,8]); on the empty Sample calculateQuartiles and          *)
(* calculateIQR both return null.                                          *)
(***************************************************************************)
IQRIsQ3MinusQ1 ==
    /\ (op \in {"StatCalculator.calculateIQR", "StatCalculator.calculateQuartiles"}
            /\ ~HasSample)
           => result = Null
    /\ (op = "StatCalculator.calculateIQR" /\ HasSample) =>
           LET quartiles == StatCalculator_calculateQuartiles(data)
               sorted == SortNumeric(data.arr)
               n == Len(sorted)
           IN  (quartiles.q1 # Null /\ quartiles.q3 # Null) =>
                   /\ result = Sub(quartiles.q3, quartiles.q1)
                   /\ result = Sub(MedianOfRanks(sorted, n - (n \div 2) + 1, n),
                                   MedianOfRanks(sorted, 1, n \div 2))
                   /\ NonNegative(result)
    /\ (op = "StatCalculator.calculateIQR" /\ data = Arr(QuartileExample)) =>
           result = FromInt(4)

IQROfExampleComputed ==
    /\ op = "StatCalculator.calculateIQR"
    /\ data = Arr(<<FromInt(10), Num(1, 2), FromInt(2), FromInt(-1)>>)
    /\ result = Num(25, 4)

(***************************************************************************)
(* C16: for every non-empty Sample, in any input order, calculateMedian    *)
(* equals the q2 of calculateQuartiles on the same Sample, and the median  *)
(* and q2 fields of one calculateAll result are equal.                     *)
(***************************************************************************)
MedianEqualsQ2 ==
    HasSample =>
        /\ op = "StatCalculator.calculateMedian" =>
               result = StatCalculator_calculateQuartiles(data).q2
        /\ op = "StatCalculator.calculateQuartiles" =>
               result.q2 = StatCalculator_calculateMedian(data)
        /\ op = "StatCalculator.calculateAll" =>
               /\ result.median = result.q2
               /\ result.median # Null

MedianAndQ2OfUnsortedEvenSample ==
    /\ op = "StatCalculator.calculateAll"
    /\ data = Arr(<<FromInt(10), FromInt(1), FromInt(2), FromInt(-1)>>)
    /\ result.median = Str(<<"1", ".", "5">>)
    /\ result.q2 = Str(<<"1", ".", "5">>)

Reverse(xs) == [i \in 1..Len(xs) |-> xs[Len(xs) + 1 - i]]

(***************************************************************************)
(* C19: for two Samples that are permutations of each other and the same   *)
(* class count, calculateAll returns equal values in every statistic       *)
(* field, the order of the listed modes included; only rawData may differ. *)
(* The Sample is compared with its ascending rearrangement and with its    *)
(* reversal.                                                               *)
(***************************************************************************)
CalculateAllIgnoresOrder ==
    (op = "StatCalculator.calculateAll" /\ HasSample) =>
        \A other \in {SortNumeric(data.arr), Reverse(data.arr)} :
            LET r == StatCalculator_calculateAll(Arr(other), arg)
            IN  /\ \A f \in StatisticFields \ {"rawData"} : r[f] = result[f]
                /\ r.rawData = Arr(other)

\* ceil(1 + 3.322 * log10(n)) for n = 1..12, computed by hand
SturgesRule(n) == <<1, 3, 3, 4, 4, 4, 4, 5, 5, 5, 5, 5>>[n]

BelowOne(numClasses) == IsRational(numClasses) /\ Lt(numClasses, FromInt(1))

\* the class width a call reports: the number returned by
\* calculateClassWidth, the classWidth field returned by calculateAll
WidthWith(k) ==
    IF op = "StatCalculator.calculateAll"
    THEN StatCalculator_formatNumber(
             StatCalculator_calculateClassWidth(data, FromInt(k)), DefaultPrecision)
    ELSE StatCalculator_calculateClassWidth(data, FromInt(k))

ReportedWidth ==
    IF op = "StatCalculator.calculateAll" THEN result.classWidth ELSE result

Least(xs) == CHOOSE x \in RangeOf(xs) : \A y \in RangeOf(xs) : Leq(x, y)

Greatest(xs) == CHOOSE x \in RangeOf(xs) : \A y \in RangeOf(xs) : Leq(y, x)

\* the number a field of a result stands for
FieldValue(field) == IF IsString(field) THEN parseFloat(field) ELSE field

(***************************************************************************)
(* C18 as stated: for every non-empty Sample the result of calculateAll    *)
(* has count equal to the number of elements, sum equal to their total,    *)
(* min and max equal to the least and greatest elements (members of the    *)
(* Sample) and range = max - min >= 0; rawData is the Sample passed in and *)
(* numClasses the class-count argument passed in.                          *)
(***************************************************************************)
BasicFieldsAreExactValues ==
    (op = "StatCalculator.calculateAll" /\ HasSample) =>
        /\ result.count = FromInt(Len(data.arr))
        /\ FieldValue(result.sum) = SumFirst(data.arr, Len(data.arr))
        /\ FieldValue(result.min) = Least(data.arr)
        /\ FieldValue(result.max) = Greatest(data.arr)
        /\ FieldValue(result.min) \in RangeOf(data.arr)
        /\ FieldValue(result.max) \in RangeOf(data.arr)
        /\ FieldValue(result.range)
               = Sub(FieldValue(result.max), FieldValue(result.min))
        /\ NonNegative(FieldValue(result.range))
        /\ result.rawData = data
        /\ arg # Undefined => result.numClasses = arg

(***************************************************************************)
(* C18 amended: for every non-empty Sample the result of calculateAll has  *)
(* count equal to the number of elements; its sum, min, max and range      *)
(* fields are the formatNumber texts (rounded to 4 decimal places) of the  *)
(* total, the least element, the greatest element and greatest - least,    *)
(* which is >= 0; rawData is the Sample passed in; numClasses is the       *)
(* class-count argument passed in, and 5 when none was passed.             *)
(***************************************************************************)
BasicFieldsAreFormattedValues ==
    (op = "StatCalculator.calculateAll" /\ HasSample) =>
        LET fmt(v) == StatCalculator_formatNumber(v, DefaultPrecision)
            least == Least(data.arr)
            greatest == Greatest(data.arr)
        IN  /\ result.count = FromInt(Len(data.arr))
            /\ result.sum = fmt(SumFirst(data.arr, Len(data.arr)))
            /\ result.min = fmt(least)
            /\ result.max = fmt(greatest)
            /\ result.range = fmt(Sub(greatest, least))
            /\ NonNegative(Sub(greatest, least))
            /\ NonNegative(FieldValue(result.range))
            /\ result.rawData = data
            /\ result.numClasses = IF arg = Undefined THEN FromInt(5) ELSE arg

RoundedBasicFieldsReturned ==
    /\ op = "StatCalculator.calculateAll"
    /\ data = Arr(FineExample)
    /\ result.sum = Str(<<"0", ".", "0", "9", "3", "8">>)
    /\ result.min = Str(<<"0", ".", "0", "3", "1", "3">>)
    /\ result.max = Str(<<"0", ".", "0", "6", "2", "5">>)
    /\ result.range = Str(<<"0", ".", "0", "3", "1", "3">>)

(***************************************************************************)
(* C14: for every non-empty Sample and every class count k >= 1,           *)
(* calculateClassWidth returns the smallest multiple of 0.01 that is       *)
(* greater than or equal to (max - min) / k, so that k * classWidth >=     *)
(* range, classWidth exceeds range / k by less than 0.01, and classWidth   *)
(* is 0 when all elements are equal; it returns null for an empty Sample.  *)
(***************************************************************************)
ClassWidthIsLeastHundredthAbove ==
    op \in {"StatCalculator.calculateClassWidth", "Statistics.calculateClassWidth"} =>
        /\ ~HasSample => result = Null
        /\ (HasSample /\ IsRational(arg) /\ Leq(FromInt(1), arg)) =>
               LET range == Sub(Greatest(data.arr), Least(data.arr))
                   exact == Div(range, arg)
               IN  /\ result = Div(Math_ceil(Mul(exact, FromInt(100))), FromInt(100))
                   /\ Leq(range, Mul(arg, result))
                   /\ Lt(Sub(result, exact), Num(1, 100))
                   /\ range = Zero => result = Zero


(***************************************************************************)
(* A second state machine: a caller holds a Sample of decimal literals and *)
(* applies calculateMean or getBasicStats, computed in double precision.   *)
(***************************************************************************)
DoubleInit ==
    /\ op = "init"
    /\ arg = Undefined
    /\ result = Undefined
    /\ raw = Undefined
    /\ data \in DecimalInputs
    /\ heap = <<>>
    /\ returned = <<>>
    /\ NoPage

DoubleCalculateMean ==
    Call("StatCalculator.calculateMean", Undefined, Double_calculateMean(data))

DoubleGetBasicStats ==
    Call("StatCalculator.getBasicStats", Undefined, Double_getBasicStats(data))

DoubleNext ==
    \/ DoubleCalculateMean
    \/ DoubleGetBasicStats

DoubleSpec == DoubleInit /\ [][DoubleNext]_vars

DoubleLeq(a, b) == DoubleCmp(a, b) <= 0

(***************************************************************************)
(* C17: for every non-empty Sample the mean is the sum of the elements     *)
(* divided by the count and satisfies min <= mean <= max (equivalently     *)
(* n * min <= sum <= n * max, for the sum, min and max of getBasicStats);  *)
(* for an empty Sample calculateMean returns null.                         *)
(***************************************************************************)
MeanBetweenMinAndMax ==
    /\ (op = "StatCalculator.calculateMean" /\ ~HasSample) => result = Null
    /\ (op = "StatCalculator.calculateMean" /\ HasSample) =>
           LET basic == Double_getBasicStats(data)
           IN  /\ result = DoubleDivInt(basic.sum, SampleSize)
               /\ DoubleLeq(basic.min, result)
               /\ DoubleLeq(result, basic.max)
    /\ (op = "StatCalculator.getBasicStats" /\ HasSample) =>
           /\ DoubleLeq(DoubleMulInt(result.min, SampleSize), result.sum)
           /\ DoubleLeq(result.sum, DoubleMulInt(result.max, SampleSize))

(***************************************************************************)
(* A third state machine: a caller holds one Sample array in the heap and  *)
(* applies up to MaxCalls operations to it, keeping every result.          *)
(***************************************************************************)
FrameInit ==
    /\ op = "init"
    /\ arg = Undefined
    /\ result = Undefined
    /\ raw = Undefined
    /\ data = Ref(1)
    /\ heap \in {<<Arr(xs)>> : xs \in FrameSamples}
    /\ returned = <<>>
    /\ NoPage

\* one more call on the same array: r is the heap it leaves and its value
FrameCall(name, a, r) ==
    /\ Len(returned) < MaxCalls
    /\ op' = name
    /\ arg' = a
    /\ \E out \in {r} :
           /\ heap' = out.heap
           /\ result' = out.value
           /\ returned' = Append(returned, out.value)
    /\ UNCHANGED <<raw, data, app, game, chat>>

FrameCalculateMedian ==
    FrameCall("StatCalculator.calculateMedian", Undefined,
              Heap_calculateMedian(heap, data))

FrameCalculateQuartiles ==
    FrameCall("StatCalculator.calculateQuartiles", Undefined,
              Heap_calculateQuartiles(heap, data))

FrameCalculateMode ==
    FrameCall("StatCalculator.calculateMode", Undefined,
              Heap_calculateMode(heap, data))

\* calculateVariance and calculateClassWidth only read the array
FrameCalculateVariance ==
    \E isPopulation \in BOOLEAN :
        FrameCall("StatCalculator.calculateVariance", [bool |-> isPopulation],
                  [heap |-> heap,
                   value |-> StatCalculator_calculateVariance(DataOf(heap, data),
                                                              isPopulation)])

FrameCalculateClassWidth ==
    \E numClasses \in {Null, FromInt(3)} :
        FrameCall("StatCalculator.calculateClassWidth", numClasses,
                  [heap |-> heap,
                   value |-> StatCalculator_calculateClassWidth(DataOf(heap, data),
                                                                numClasses)])

FrameCalculateAll ==
    FrameCall("StatCalculator.calculateAll", Undefined,
              Heap_calculateAll(heap, data, Undefined))

FrameNext ==
    \/ FrameCalculateMedian
    \/ FrameCalculateQuartiles
    \/ FrameCalculateMode
    \/ FrameCalculateVariance
    \/ FrameCalculateClassWidth
    \/ FrameCalculateAll

FrameSpec == FrameInit /\ [][FrameNext]_vars

(***************************************************************************)
(* C20: no statistics operation changes its input or an earlier output:    *)
(* in every step of any sequence of calls to calculateMedian,              *)
(* calculateQuartiles, calculateMode, calculateVariance,                   *)
(* calculateClassWidth and calculateAll, every array and object that       *)
(* exists before the call (the Sample array passed in, and the arrays and  *)
(* objects returned by earlier calls) holds the same elements in the same  *)
(* order and the same fields after it.                                     *)
(***************************************************************************)
OperationsChangeNoExistingCell ==
    [][\A a \in DOMAIN heap : heap'[a] = heap[a]]_vars

SortedAfterCalculateAllOnUnsortedSample ==
    /\ Len(returned) = 2
    /\ op = "StatCalculator.calculateQuartiles"
    /\ heap[data.ref] = Arr(<<FromInt(3), FromInt(1), FromInt(2)>>)
    /\ IsRef(returned[1])
    /\ DOMAIN heap[returned[1].ref] = {"obj"}
    /\ "rawData" \in DOMAIN heap[returned[1].ref].obj
    /\ heap[returned[1].ref].obj.rawData = data
    /\ heap[returned[1].ref].obj.median = Str(<<"2">>)
    /\ heap[result.ref].obj.q1 = FromInt(1)

\* the texts ts joined with ", "
RECURSIVE JoinTexts(_)
JoinTexts(ts) ==
    IF ts = <<>> THEN <<>>
    ELSE IF Len(ts) = 1 THEN ts[1].str
    ELSE ts[1].str \o <<",", " ">> \o JoinTexts(Tail(ts))

\* the elements of a Sample formatted by formatNumber, joined, and parsed
ParsedAgain(sample) ==
    StatCalculator_parseInput(
        Str(JoinTexts([i \in 1..Len(sample.arr) |->
                          StatCalculator_formatNumber(sample.arr[i], DefaultPrecision)])))

\* v rounded to 4 decimal places, a tie away from zero
RoundedToFourPlaces(v) ==
    LET scaled == Abs(v.n) * 10000
        k == (scaled \div v.d) + (IF 2 * (scaled % v.d) >= v.d THEN 1 ELSE 0)
    IN  Num(IF v.n < 0 THEN -k ELSE k, 10000)

(***************************************************************************)
(* C21 as stated: for every input, parsing the join of the formatNumber    *)
(* texts of the elements of S = parseInput(input) returns a Sample equal   *)
(* to S: the same numbers in the same order.                               *)
(***************************************************************************)
ParseFormatParseIsIdentity ==
    op = "StatCalculator.parseInput" => ParsedAgain(result) = result

(***************************************************************************)
(* C21 amended: for every input, parsing the join of the formatNumber      *)
(* texts of the elements of S = parseInput(input) returns the elements of  *)
(* S, in the same order, each rounded to 4 decimal places; it returns S    *)
(* itself when no element of S has more than 4 decimal places, and a       *)
(* second round trip changes nothing.                                      *)
(***************************************************************************)
ParseFormatParseRoundsToFourPlaces ==
    op = "StatCalculator.parseInput" =>
        /\ ParsedAgain(result)
               = Arr([i \in 1..Len(result.arr) |-> RoundedToFourPlaces(result.arr[i])])
        /\ (\A i \in 1..Len(result.arr) : 10000 % result.arr[i].d = 0)
               => ParsedAgain(result) = result
        /\ ParsedAgain(ParsedAgain(result)) = ParsedAgain(result)

FineDecimalParsedAgain ==
    /\ op = "StatCalculator.parseInput"
    /\ result = Arr(<<Num(123456, 100000), FromInt(-2)>>)
    /\ ParsedAgain(result) = Arr(<<Num(12346, 10000), FromInt(-2)>>)

\* the number of characters of cs after its decimal point, 0 without one
DecimalPlaces(cs) ==
    IF \E i \in 1..Len(cs) : cs[i] = "."
    THEN Len(cs) - (CHOOSE i \in 1..Len(cs) : cs[i] = ".")
    ELSE 0

(***************************************************************************)
(* C22: formatNumber renders an exactly integral number as its integer     *)
(* text with no decimal point, renders any other number rounded to the     *)
(* given precision (4 decimal places by default) with no trailing zeros,   *)
(* and returns null for a null or undefined argument.                      *)
(***************************************************************************)
FormatNumberRoundsToPrecision ==
    op \in {"StatCalculator.formatNumber", "Statistics.formatNumber"} =>
        LET num == arg.num
            p == IF arg.precision = Undefined THEN 4 ELSE arg.precision.n
        IN  /\ num \in {Null, Undefined} => result = Null
            /\ (IsRational(num) /\ isFinite(num)) =>
                   LET text == result.str
                       shown == LiteralValue(result)
                       scaled == Abs(num.n) * Pow10(p)
                       k == (scaled \div num.d)
                                + (IF 2 * (scaled % num.d) >= num.d THEN 1 ELSE 0)
                   IN  /\ IsString(result)
                       /\ IsFiniteLiteral(result)
                       /\ num.d = 1 =>
                              /\ DecimalPlaces(text) = 0
                              /\ shown = num
                       /\ num.d # 1 =>
                              /\ shown = Num(IF num.n < 0 THEN -k ELSE k, Pow10(p))
                              /\ DecimalPlaces(text) <= p
                              /\ DecimalPlaces(text) > 0 => text[Len(text)] # "0"
                              /\ text[Len(text)] # "."

RepeatingDecimalFormatted ==
    /\ op = "StatCalculator.formatNumber"
    /\ arg = [num |-> Num(5, 3), precision |-> Undefined]
    /\ result = Str(<<"1", ".", "6", "6", "6", "7">>)

\* the text has no character other than white space
Blank(v) == IsString(v) /\ \A i \in 1..Len(v.str) : v.str[i] \in WhiteSpace

(***************************************************************************)
(* C23: validateInput(input) returns valid = true if and only if           *)
(* parseInput(input) contains at least one number, and then its data field *)
(* is that parsed Sample; blank or whitespace-only input gives valid =     *)
(* false with 'Please enter some numbers', input with no valid number      *)
(* gives valid = false with 'No valid numbers found in input', a single    *)
(* number gives valid = true with a warning.  So handleCalculate never     *)
(* calls calculateAll with an empty Sample.                                *)
(***************************************************************************)
ValidExactlyWhenANumberIsParsed ==
    LET parsed == StatCalculator_parseInput(raw)
    IN  /\ op = "StatCalculator.validateInput" =>
               /\ result.valid <=> Len(parsed.arr) >= 1
               /\ result.valid => result.data = parsed
               /\ (~IsString(raw) \/ Blank(raw)) =>
                      ~result.valid /\ result.error = PleaseEnterSomeNumbers
               /\ (IsString(raw) /\ ~Blank(raw) /\ Len(parsed.arr) = 0) =>
                      ~result.valid /\ result.error = NoValidNumbersFound
               /\ Len(parsed.arr) = 1 =>
                      /\ result.valid
                      /\ "warning" \in DOMAIN result
                      /\ result.warning = OnlyOneValue
               /\ Len(parsed.arr) >= 2 => "warning" \notin DOMAIN result
        /\ op = "App.handleCalculate" =>
               /\ result.calculated # Undefined <=> Len(parsed.arr) >= 1
               /\ result.calculated # Undefined =>
                      /\ result.calculated.data = parsed
                      /\ "error" \notin DOMAIN result.currentResults

SingleNumberValidWithWarning ==
    /\ op = "StatCalculator.validateInput"
    /\ raw = Str(<<"1", ",", "a">>)
    /\ result = [valid |-> TRUE, data |-> Arr(<<FromInt(1)>>), warning |-> OnlyOneValue]

(***************************************************************************)
(* A fourth state machine: the page of the application controller.  The    *)
(* user types a text and a class count and clicks Calculate, or clicks     *)
(* Clear, Export or Print; each handler runs to its end before the next.   *)
(* The clock is read by addToHistory; it advances between two readings.    *)
(***************************************************************************)
\* the texts typed into the text area: empty, without a number, with numbers
AppInputs == {EmptyString, Str(<<"a">>), Str(<<"2", ",", "1">>)}

\* the texts typed into the class-count field
AppFields == {Str(<<"5">>), Str(<<"-", "1">>)}

AppInit ==
    /\ op = "init"
    /\ arg = Undefined
    /\ result = Undefined
    /\ raw = Undefined
    /\ data = Undefined
    /\ heap = <<>>
    /\ returned = <<>>
    /\ app = [state |-> InitialApp, clock |-> 0]
    /\ game = Undefined
    /\ chat = Undefined

\* a handler of the page has run: st is the state it leaves
AppHandler(name, a, st, clock) ==
    /\ op' = name
    /\ arg' = a
    /\ \E out \in {st} : app' = [state |-> out, clock |-> clock]
    /\ UNCHANGED <<raw, data, result, heap, returned, game, chat>>

AppHandleCalculate ==
    /\ app.clock < MaxClock
    /\ \E input \in AppInputs, field \in AppFields :
           \E typed \in {[app.state EXCEPT !.dataInput = input, !.numClasses = field]} :
           \E after \in {App_handleCalculate(typed, app.clock + 1)} :
               AppHandler("App.handleCalculate", [input |-> input, field |-> field],
                          after,
                          IF after.calculated = Undefined
                          THEN app.clock ELSE app.clock + 1)

AppHandleClear ==
    AppHandler("App.handleClear", Undefined, App_handleClear(app.state), app.clock)

AppExportToCsv ==
    AppHandler("App.exportToCsv", Undefined, App_exportToCsv(app.state), app.clock)

AppPrintResults ==
    AppHandler("App.printResults", Undefined, App_printResults(app.state), app.clock)

AppNext ==
    \/ AppHandleCalculate
    \/ AppHandleClear
    \/ AppExportToCsv
    \/ AppPrintResults

AppSpec == AppInit /\ [][AppNext]_vars

\* the class count handleCalculate reads from the field's text
CountTyped(field) ==
    IF Falsy(parseInt(field)) THEN FromInt(5) ELSE parseInt(field)

\* the toasts of the handler that ran last say that there are no results
SaysNoResults(st) ==
    \E i \in 1..Len(st.toasts) :
        /\ st.toasts[i].type = "error"
        /\ st.toasts[i].message \in {NoResultsToExport, NoResultsToPrint}

ResultsAndDataGoTogether ==
    /\ app.state.currentResults = Null <=> app.state.currentData = Null
    /\ op = "init" => app.state.currentResults = Null
    /\ app.state.currentResults # Null =>
           /\ "error" \notin DOMAIN app.state.currentResults
           /\ app.state.currentResults.rawData = app.state.currentData

HandlersKeepResultsOfLastCalculation ==
    LET before == app.state
        after == app'.state
        sample == StatCalculator_parseInput(arg'.input)
    IN  /\ (op' = "App.handleCalculate" /\ Len(sample.arr) = 0) =>
               /\ after.currentResults = before.currentResults
               /\ after.currentData = before.currentData
               /\ after.history = before.history
               /\ after.storage = before.storage
        /\ (op' = "App.handleCalculate" /\ Len(sample.arr) >= 1) =>
               /\ after.currentData = sample
               /\ after.currentResults =
                      StatCalculator_calculateAll(sample, CountTyped(arg'.field))
        /\ op' = "App.handleClear" =>
               /\ after.currentResults = Null
               /\ after.currentData = Null
        /\ op' \in {"App.exportToCsv", "App.printResults"} =>
               /\ after.currentResults = before.currentResults
               /\ after.currentData = before.currentData
               /\ before.currentResults = Null <=> SaysNoResults(after)
               /\ before.currentResults = Null <=> after.exported = Undefined
               /\ (op' = "App.exportToCsv" /\ before.currentResults # Null) =>
                      after.exported = [csv |-> [results |-> before.currentResults,
                                                 rawData |-> before.currentData]]

(***************************************************************************)
(* C24: after any sequence of calculate, clear, export and print actions,  *)
(* currentResults and currentData are the result and Sample of the most    *)
(* recent successful calculation since the last clear, or null if there is *)
(* none: a calculate whose input fails validation leaves currentResults,   *)
(* currentData and history unchanged, handleClear sets both to null, and   *)
(* exportToCsv and printResults report 'No results' and export nothing     *)
(* exactly when currentResults is null.                                    *)
(***************************************************************************)
CurrentResultsAreOfLastCalculation ==
    []ResultsAndDataGoTogether /\ [][HandlersKeepResultsOfLastCalculation]_vars

ExportedAfterSecondCalculation ==
    /\ op = "App.exportToCsv"
    /\ Len(app.state.history.arr) = 2
    /\ app.state.currentResults # Null
    /\ app.state.currentResults.numClasses = FromInt(-1)
    /\ app.state.exported = [csv |-> [results |-> app.state.currentResults,
                                      rawData |-> Arr(<<FromInt(2), FromInt(1)>>)]]

HistoryMostRecentFirst ==
    LET h == app.state.history.arr
    IN  /\ Len(h) <= 10
        /\ \A i, j \in 1..Len(h) : i < j => Lt(h[j].id, h[i].id)
        /\ IF app.state.storage = Null THEN h = <<>>
           ELSE app.state.storage = [json |-> Arr(h)]

AddToHistoryPutsLatestFirst ==
    LET h == app.state.history.arr
        after == app'.state
        h2 == after.history.arr
    IN  IF op' = "App.handleCalculate" /\ after.calculated # Undefined
        THEN /\ Len(h2) = (IF Len(h) < 10 THEN Len(h) + 1 ELSE 10)
             /\ h2[1].input = arg'.input
             /\ h2[1].mean = after.currentResults.mean
             /\ h2[1].id = FromInt(app'.clock)
             /\ \A i \in 2..Len(h2) : h2[i] = h[i - 1]
             /\ after.storage = [json |-> Arr(h2)]
        ELSE h2 = h /\ after.storage = app.state.storage

(***************************************************************************)
(* C25: after every addToHistory call, in any sequence of successful       *)
(* calculations, history holds at most 10 entries ordered most recent      *)
(* first: the entry of the latest calculation is at index 0, the retained  *)
(* older entries keep their relative order, only the oldest entries are    *)
(* dropped, and the list written to local storage equals history.          *)
(***************************************************************************)
HistoryHoldsTenMostRecent ==
    []HistoryMostRecentFirst /\ [][AddToHistoryPutsLatestFirst]_vars

OldestEntryDropped ==
    /\ op = "App.handleCalculate"
    /\ Len(app.state.history.arr) = 10
    /\ app.state.history.arr[1].id = FromInt(11)
    /\ app.state.history.arr[10].id = FromInt(2)

(***************************************************************************)
(* C26: in every result returned by calculateAll, the numClasses field is  *)
(* the class count with which the classWidth field of the same result was  *)
(* computed, for every class-count argument including 0, negative and      *)
(* absent values.                                                          *)
(***************************************************************************)
NumClassesFieldIsCountOfClassWidth ==
    (op = "StatCalculator.calculateAll" /\ HasSample) =>
        /\ IsRational(result.numClasses)
        /\ Leq(FromInt(1), result.numClasses)
        /\ result.classWidth = WidthWith(result.numClasses.n)

RECURSIVE Total(_)
Total(counts) == IF counts = <<>> THEN 0 ELSE Head(counts) + Total(Tail(counts))

(***************************************************************************)
(* C27: for every non-empty data array and every bin count numBins >= 1,   *)
(* data whose values are all equal included, createHistogram counts every  *)
(* value in exactly one of the numBins bins with index 0 .. numBins-1, so  *)
(* the bin counts sum to data.length; the maximum is counted in the last   *)
(* bin.                                                                    *)
(***************************************************************************)
EveryValueCountedInOneBin ==
    (op = "ChartManager.createHistogram" /\ HasSample) =>
        LET numBins == IF arg = Undefined THEN 8 ELSE arg.n
        IN  /\ Len(result.bins) = numBins
            /\ result.stray = 0
            /\ Total(result.bins) = Len(data.arr)
            /\ result.bins[numBins] >= 1

\* the fields of the statistics are in the order of a box plot, and the four
\* bars are not negative
QuartileFieldsOrdered ==
    LET stats == result.currentStats
        bars == result.boxPlot
    IN  /\ Leq(FieldValue(stats.min), FieldValue(stats.q1))
        /\ Leq(FieldValue(stats.q1), FieldValue(stats.q2))
        /\ Leq(FieldValue(stats.q2), FieldValue(stats.q3))
        /\ Leq(FieldValue(stats.q3), FieldValue(stats.max))
        /\ Leq(Zero, FieldValue(stats.iqr))
        /\ \A bar \in DOMAIN bars : isFinite(bars[bar]) /\ Leq(Zero, bars[bar])

BarsTotal ==
    Add(Add(result.boxPlot.minToQ1, result.boxPlot.q1ToMedian),
        Add(result.boxPlot.medianToQ3, result.boxPlot.q3ToMax))

Rows == 6

Tiles == 5

\* the letters of the keyboard
Letters == {"A", "B"}

\* the words of the word list, and a word that is not in it
WordList == {<<"A", "A", "A", "A", "A">>, <<"A", "B", "A", "B", "A">>}

EmptyBoard == [r \in 0..(Rows - 1) |-> [t \in 0..(Tiles - 1) |-> ""]]

\* the game after its constructor, with no statistics in local storage
NewWordleGame ==
    [wordList |-> {},
     currentWord |-> <<>>,
     currentRow |-> 0,
     currentTile |-> 0,
     gameOver |-> FALSE,
     initialized |-> FALSE,
     wordsLoaded |-> FALSE,
     stats |-> [gamesPlayed |-> 0, gamesWon |-> 0, currentStreak |-> 0, maxStreak |-> 0],
     saved |-> Null,
     board |-> EmptyBoard,
     accepted |-> 0]

\* word is the word picked by Math.random
WordleGame_startNewGame(g, word) ==
    IF ~g.wordsLoaded \/ g.wordList = {} THEN g
    ELSE [g EXCEPT !.currentWord = word,
                   !.currentRow = 0,
                   !.currentTile = 0,
                   !.gameOver = FALSE,
                   !.board = EmptyBoard,
                   !.accepted = 0]

\* the fetch of the word list has ended, with the words of the file or with
\* the fallback list
WordleGame_loadWordList(g, word) ==
    LET loaded == [g EXCEPT !.wordList = WordList, !.wordsLoaded = TRUE]
    IN  IF g.initialized /\ g.currentWord = <<>>
        THEN WordleGame_startNewGame(loaded, word) ELSE loaded

WordleGame_init(g, word) ==
    IF g.initialized THEN g
    ELSE [(IF g.wordsLoaded THEN WordleGame_startNewGame(g, word) ELSE g)
              EXCEPT !.initialized = TRUE]

WordleGame_addLetter(g, letter) ==
    [g EXCEPT !.board[g.currentRow][g.currentTile] = letter,
              !.currentTile = g.currentTile + 1]

WordleGame_deleteLetter(g) ==
    IF g.currentTile = 0 THEN g
    ELSE [g EXCEPT !.currentTile = g.currentTile - 1,
                   !.board[g.currentRow][g.currentTile - 1] = ""]

\* the letters of the current row, read from the board
GuessOf(g) == [i \in 1..Tiles |-> g.board[g.currentRow][i - 1]]

Math_maxOfTwo(a, b) == IF a < b THEN b ELSE a

\* a full row is accepted whether or not it is in the word list
WordleGame_submitGuess_AnyWord(g) ==
    LET guess == GuessOf(g)
        counted == [g EXCEPT !.accepted = g.accepted + 1]
        won == [g.stats EXCEPT
                    !.gamesPlayed = @ + 1,
                    !.gamesWon = @ + 1,
                    !.currentStreak = @ + 1,
                    !.maxStreak = Math_maxOfTwo(@, g.stats.currentStreak + 1)]
        lost == [g.stats EXCEPT !.gamesPlayed = @ + 1, !.currentStreak = 0]
    IN  IF g.currentTile < Tiles THEN g
        ELSE IF guess = g.currentWord
        THEN [counted EXCEPT !.gameOver = TRUE, !.stats = won,
                             !.saved = JSON_stringify(won)]
        ELSE IF g.currentRow = Rows - 1
        THEN [counted EXCEPT !.gameOver = TRUE, !.stats = lost,
                             !.saved = JSON_stringify(lost)]
        ELSE [counted EXCEPT !.currentRow = g.currentRow + 1, !.currentTile = 0]

WordleGame_submitGuess(g) ==
    LET guess == GuessOf(g)
        counted == [g EXCEPT !.accepted = g.accepted + 1]
        won == [g.stats EXCEPT
                    !.gamesPlayed = @ + 1,
                    !.gamesWon = @ + 1,
                    !.currentStreak = @ + 1,
                    !.maxStreak = Math_maxOfTwo(@, g.stats.currentStreak + 1)]
        lost == [g.stats EXCEPT !.gamesPlayed = @ + 1, !.currentStreak = 0]
    IN  IF g.currentTile < Tiles THEN g
        ELSE IF guess \notin g.wordList THEN g
        ELSE IF guess = g.currentWord
        THEN [counted EXCEPT !.gameOver = TRUE, !.stats = won,
                             !.saved = JSON_stringify(won)]
        ELSE IF g.currentRow = Rows - 1
        THEN [counted EXCEPT !.gameOver = TRUE, !.stats = lost,
                             !.saved = JSON_stringify(lost)]
        ELSE [counted EXCEPT !.currentRow = g.currentRow + 1, !.currentTile = 0]

WordleGame_handleKeyPress(g, key) ==
    IF g.gameOver THEN g
    ELSE IF key = "ENTER" THEN WordleGame_submitGuess(g)
    ELSE IF key = "BACKSPACE" THEN WordleGame_deleteLetter(g)
    ELSE IF g.currentTile < Tiles THEN WordleGame_addLetter(g, key)
    ELSE g

GameInit ==
    /\ op = "init"
    /\ arg = Undefined
    /\ result = Undefined
    /\ raw = Undefined
    /\ data = Undefined
    /\ heap = <<>>
    /\ returned = <<>>
    /\ app = Undefined
    /\ game = NewWordleGame
    /\ chat = Undefined

\* an event of the game page has been handled: g is the game it leaves
GameEvent(name, a, g) ==
    /\ op' = name
    /\ arg' = a
    /\ game' = g
    /\ UNCHANGED <<raw, data, result, heap, returned, app, chat>>

\* the word Math.random picks: any word of the list
GameLoadWordList ==
    /\ ~game.wordsLoaded
    /\ \E word \in WordList :
           GameEvent("WordleGame.loadWordList", Undefined,
                     WordleGame_loadWordList(game, word))

GameOpenPage ==
    /\ ~game.initialized
    /\ \E word \in WordList :
           GameEvent("WordleGame.init", Undefined, WordleGame_init(game, word))

\* the New Game button; MaxGames bounds the games of one session
GameStartNewGame ==
    /\ game.initialized
    /\ game.stats.gamesPlayed < MaxGames
    /\ \E word \in (IF game.wordList = {} THEN {<<>>} ELSE game.wordList) :
           GameEvent("WordleGame.startNewGame", Undefined,
                     WordleGame_startNewGame(game, word))

\* a key of the keyboard on the screen or of the physical keyboard
GameKeyPress ==
    /\ game.initialized
    /\ \E key \in Letters \cup {"ENTER", "BACKSPACE"} :
           GameEvent("WordleGame.handleKeyPress", key,
                     WordleGame_handleKeyPress(game, key))

GameNext ==
    \/ GameLoadWordList
    \/ GameOpenPage
    \/ GameStartNewGame
    \/ GameKeyPress

GameSpec == GameInit /\ [][GameNext]_vars

RowAndTileInRange ==
    /\ game.currentRow \in 0..5
    /\ game.currentTile \in 0..5
    /\ game.gameOver =>
           \/ GuessOf(game) = game.currentWord
           \/ game.accepted = 6
    /\ ~game.gameOver => game.accepted = game.currentRow /\ game.accepted < 6
    /\ game.saved # Null => game.saved = [json |-> game.stats]

KeyPressesFollowTheRules ==
    LET guess == GuessOf(game)
        ends == ~game.gameOver /\ game'.gameOver
    IN  /\ (op' = "WordleGame.handleKeyPress" /\ game.gameOver) =>
               /\ game'.currentRow = game.currentRow
               /\ game'.currentTile = game.currentTile
               /\ game'.stats = game.stats
               /\ game'.gameOver
        /\ (op' = "WordleGame.handleKeyPress" /\ arg' = "ENTER"
                /\ (game.currentTile < 5 \/ guess \notin game.wordList)) =>
               /\ game'.currentRow = game.currentRow
               /\ game'.stats = game.stats
               /\ game'.gameOver = game.gameOver
               /\ game'.accepted = game.accepted
        /\ ends <=>
               /\ op' = "WordleGame.handleKeyPress"
               /\ arg' = "ENTER"
               /\ ~game.gameOver
               /\ game'.accepted = game.accepted + 1
               /\ guess = game.currentWord \/ game'.accepted = 6
        /\ game'.stats.gamesPlayed =
               game.stats.gamesPlayed + (IF ends THEN 1 ELSE 0)
        /\ game'.stats # game.stats => ends
        /\ (game.gameOver /\ ~game'.gameOver) => op' = "WordleGame.startNewGame"

(***************************************************************************)
(* C29: in the Wordle game, for any sequence of key presses after          *)
(* startNewGame, currentRow stays in 0..5 and currentTile in 0..5; an      *)
(* ENTER with fewer than 5 letters or with a word not in the word list     *)
(* does not advance the row and does not change the statistics; the game   *)
(* becomes over exactly when an accepted guess equals the answer or when   *)
(* the sixth accepted guess is submitted; and while the game is over every *)
(* key press leaves row, tile and statistics unchanged until startNewGame  *)
(* is called, so gamesPlayed increases by exactly one per finished game.   *)
(***************************************************************************)
GameEndsOnAnswerOrSixthGuess ==
    []RowAndTileInRange /\ [][KeyPressesFollowTheRules]_vars

LostOnSixthGuessInSecondGame ==
    /\ op = "WordleGame.handleKeyPress"
    /\ game.gameOver
    /\ game.accepted = 6
    /\ GuessOf(game) # game.currentWord
    /\ game.stats = [gamesPlayed |-> 2, gamesWon |-> 1, currentStreak |-> 0, maxStreak |-> 1]

(***************************************************************************)
(* A sixth state machine: the chat handler (NLQueryHandler).  The state is *)
(* the list of messages in the chat container, in document order, the      *)
(* queries whose fetch has not ended, the conversation history and the     *)
(* reading of the clock.  sendQuery runs up to its fetch in one step and   *)
(* from the end of the fetch to its return in another; other events, and   *)
(* other queries, come in between.                                         *)
(***************************************************************************)
\* what the user may ask; the empty text is sent nowhere
Questions == {"", "What is the average of my data?"}

PleaseCalculateFirst == "Please calculate some data first before asking questions."

TypingIndicator ==
    "<span class=\"typing-indicator\"><span></span><span></span><span></span></span>"

ConnectionError == "Connection error. Please try again."

CouldNotProcess == "Sorry, I couldn't process your question. Please try again."

\* how a fetch may end: an answer, a refusal, a failure of the connection
Outcomes == {"success", "refused", "failed"}

NewChat ==
    [messages |-> <<>>,
     pending |-> <<>>,
     conversationHistory |-> <<>>,
     hasData |-> FALSE,
     sendDisabled |-> FALSE,
     sent |-> 0]

\* sent counts the questions sendQuery has put a message in the chat for; the
\* code has no such field

\* addMessage with the clock at now: the id is 'msg-' + Date.now()
NLQueryHandler_addMessage(c, role, content, isTemporary, now) ==
    [c EXCEPT !.messages =
        Append(@, [id |-> <<"msg-", now>>, role |-> role, content |-> content,
                   temporary |-> isTemporary])]

\* document.getElementById finds the first element with the id
NLQueryHandler_removeMessage(c, messageId) ==
    LET found == {i \in 1..Len(c.messages) : c.messages[i].id = messageId}
        first == CHOOSE i \in found : \A j \in found : i <= j
    IN  IF found = {} THEN c
        ELSE [c EXCEPT !.messages =
                  SubSeq(@, 1, first - 1) \o SubSeq(@, first + 1, Len(@))]

\* sendQuery up to its await: now and later are the two readings of the clock
NLQueryHandler_sendQuery(c, question, now, later) ==
    LET asked == NLQueryHandler_addMessage(c, "user", question, FALSE, now)
        loading == NLQueryHandler_addMessage(asked, "assistant", TypingIndicator,
                                             TRUE, later)
    IN  IF question = "" THEN c
        ELSE IF ~c.hasData
        THEN [NLQueryHandler_addMessage(c, "assistant", PleaseCalculateFirst,
                                        FALSE, now) EXCEPT !.sent = @ + 1]
        ELSE [loading EXCEPT
                  !.sendDisabled = TRUE,
                  !.sent = @ + 1,
                  !.pending = Append(@, [loadingId |-> <<"msg-", later>>,
                                         question |-> question])]

\* sendQuery from the end of the fetch of the k-th pending query
NLQueryHandler_sendQueryResumed(c, k, outcome, now) ==
    LET query == c.pending[k]
        removed == NLQueryHandler_removeMessage(c, query.loadingId)
        text == IF outcome = "success" THEN "answer"
                ELSE IF outcome = "refused" THEN CouldNotProcess
                ELSE ConnectionError
        answered == NLQueryHandler_addMessage(removed, "assistant", text, FALSE, now)
    IN  [answered EXCEPT
             !.conversationHistory =
                 IF outcome = "success"
                 THEN Append(@, [question |-> query.question, answer |-> "answer"])
                 ELSE @,
             !.sendDisabled = FALSE,
             !.pending = SubSeq(@, 1, k - 1) \o SubSeq(@, k + 1, Len(@))]

NLQueryHandler_clearConversation(c) ==
    [c EXCEPT !.messages = <<>>, !.conversationHistory = <<>>]

NLQueryHandler_setDataContext(c) == [c EXCEPT !.hasData = TRUE]

ChatInit ==
    /\ op = "init"
    /\ arg = Undefined
    /\ result = Undefined
    /\ raw = Undefined
    /\ data = Undefined
    /\ heap = <<>>
    /\ returned = <<>>
    /\ app = Undefined
    /\ game = Undefined
    /\ chat = [handler |-> NewChat, clock |-> 0]

\* an event of the chat has been handled: c is the handler it leaves
ChatEvent(name, a, c, clock) ==
    /\ op' = name
    /\ arg' = a
    /\ chat' = [handler |-> c, clock |-> clock]
    /\ UNCHANGED <<raw, data, result, heap, returned, app, game>>

\* a millisecond passes
ChatTick ==
    /\ chat.clock < MaxTime
    /\ ChatEvent("tick", Undefined, chat.handler, chat.clock + 1)

ChatSetDataContext ==
    /\ ~chat.handler.hasData
    /\ ChatEvent("NLQueryHandler.setDataContext", Undefined,
                 NLQueryHandler_setDataContext(chat.handler), chat.clock)

\* the two addMessage calls of sendQuery read the clock one after the other:
\* in the same millisecond, or across the start of the next one
ChatSendQuery ==
    /\ chat.handler.sent < MaxQueries
    /\ \E question \in Questions, later \in {chat.clock, chat.clock + 1} :
           /\ later <= MaxTime
           /\ ChatEvent("NLQueryHandler.sendQuery", question,
                        NLQueryHandler_sendQuery(chat.handler, question,
                                                 chat.clock, later),
                        IF question = "" \/ ~chat.handler.hasData
                        THEN chat.clock ELSE later)

ChatFetchEnds ==
    \E k \in 1..Len(chat.handler.pending), outcome \in Outcomes :
        ChatEvent("NLQueryHandler.sendQuery resumed",
                  [query |-> chat.handler.pending[k], outcome |-> outcome],
                  NLQueryHandler_sendQueryResumed(chat.handler, k, outcome, chat.clock),
                  chat.clock)

ChatClearConversation ==
    ChatEvent("NLQueryHandler.clearConversation", Undefined,
              NLQueryHandler_clearConversation(chat.handler), chat.clock)

ChatNext ==
    \/ ChatTick
    \/ ChatSetDataContext
    \/ ChatSendQuery
    \/ ChatFetchEnds
    \/ ChatClearConversation

ChatSpec == ChatInit /\ [][ChatNext]_vars

\* the messages that are not loading placeholders, in document order
RECURSIVE Lasting(_)
Lasting(messages) ==
    IF messages = <<>> THEN <<>>
    ELSE (IF Head(messages).temporary THEN <<>> ELSE <<Head(messages)>>)
             \o Lasting(Tail(messages))

MessageIdsDistinct ==
    /\ \A i, j \in 1..Len(chat.handler.messages) :
           i # j => chat.handler.messages[i].id # chat.handler.messages[j].id
    /\ chat.handler.pending = <<>> =>
           \A i \in 1..Len(chat.handler.messages) :
               ~chat.handler.messages[i].temporary

OnlyThePlaceholderIsRemoved ==
    op' = "NLQueryHandler.sendQuery resumed" =>
        LET before == chat.handler.messages
            after == chat'.handler.messages
        IN  /\ Lasting(before) = Lasting(SubSeq(after, 1, Len(after) - 1))
            /\ \A i \in 1..Len(after) :
                   ~(after[i].temporary /\ after[i].id = arg'.query.loadingId)

(***************************************************************************)
(* C30: in the chat handler, every message added by addMessage receives an *)
(* id distinct from the ids of all other messages present in the chat,     *)
(* whatever the timing of the calls; hence in sendQuery the call           *)
(* removeMessage(loadingId) removes the temporary loading placeholder and  *)
(* never the user's question or any other message, and after the query     *)
(* completes (successfully or not) no loading placeholder remains.         *)
(***************************************************************************)
PlaceholderRemovedByDistinctId ==
    []MessageIdsDistinct /\ [][OnlyThePlaceholderIsRemoved]_vars

====
